---- MODULE Spec2Model ----
(***************************************************************************)
(* A model of tlparse's ingestion pipeline: parse_path (src/src/lib.rs),   *)
(* the analyzers it dispatches to (src/src/parsers.rs) and the stack trie, *)
(* compile ids and the process-wide intern table (src/src/types.rs).       *)
(*                                                                         *)
(* Encoding.  Option<T> is a sequence of length at most one: None is <<>>  *)
(* and Some(x) is <<x>>.  A string the program takes apart (a payload, a   *)
(* file name to simplify) is a sequence of tokens; a string it only        *)
(* carries is a TLA+ string.  A path is a record of its directory, the     *)
(* stem of its file name, the sequence number the dispatcher inserted (an  *)
(* Option) and its extension.  The template engine and the syntax          *)
(* highlighter are pure functions of their context: a rendered page is the *)
(* record of the context it was rendered from.                             *)
(***************************************************************************)
EXTENDS Integers, Sequences, FiniteSets, TLC

VARIABLES
    is_file,            \* path.is_file()
    file,               \* the lines of the log, in order
    config,             \* ParseConfig: strict, strict_compile_id, plain_text
    INTERN_TABLE,       \* process-wide: id -> string, kept across calls
    run,                \* which parse_path call of the process this is
    first_result,       \* what the first call returned
    pc,                 \* "start" | "ingest" | "done"
    result,             \* the anyhow::Result returned (kind, outputs)
    pos,                \* index of the next line the reader will yield
    stats,              \* Stats
    expected_rank,      \* Option<Option<u32>>
    directory,          \* insertion-ordered map Option<CompileId> -> Vec<OutputFile>
    output,             \* Vec<(PathBuf, String)>
    output_count,       \* the run-wide sequence counter
    metrics_index,      \* insertion-ordered map Option<CompileId> -> Vec<metrics>
    stack_index,        \* map Option<CompileId> -> StackSummary
    stack_trie,         \* the known stack trie
    unknown_stack_trie, \* the unknown stack trie
    failures,           \* breaks.failures
    chromium_events,    \* Vec<Value>
    unknown_fields,     \* the names of unrecognized envelope fields
    peer                \* a second parse_path call of the process, on another file

vars == << is_file, file, config, INTERN_TABLE, run, first_result, pc, result,
           pos, stats, expected_rank, directory, output, output_count,
           metrics_index, stack_index, stack_trie, unknown_stack_trie,
           failures, chromium_events, unknown_fields, peer >>

\* The longest log the model reads, in lines.
MaxLines == 3
\* The longest log read under every setting of the strict switches.
MaxStrictLines == 2

(***************************************************************************)
(* Option and small sequence helpers.                                      *)
(***************************************************************************)
None == << >>
Some(x) == << x >>
IsSome(o) == Len(o) > 0

Range(s) == { s[i] : i \in 1..Len(s) }

SeqsUpTo(S, n) == UNION { [1..k -> S] : k \in 0..n }

RECURSIVE Concat(_)
Concat(ss) == IF ss = << >> THEN << >> ELSE Head(ss) \o Concat(Tail(ss))

(***************************************************************************)
(* Insertion-ordered maps (FxIndexMap): a sequence of [key, val] entries   *)
(* with pairwise distinct keys, in the order the keys were first inserted. *)
(***************************************************************************)
MapHas(m, k) == \E i \in 1..Len(m) : m[i].key = k
MapIdx(m, k) == CHOOSE i \in 1..Len(m) : m[i].key = k
MapGet(m, k) == m[MapIdx(m, k)].val
MapPut(m, k, v) ==
    IF MapHas(m, k) THEN [m EXCEPT ![MapIdx(m, k)].val = v]
    ELSE Append(m, [key |-> k, val |-> v])
\* an entry that moves to the end of the map when it is looked up again
MapOrDefault_moves_to_end(m, k) ==
    IF MapHas(m, k)
    THEN Append(SelectSeq(m, LAMBDA x : x.key # k), m[MapIdx(m, k)])
    ELSE Append(m, [key |-> k, val |-> << >>])

\* entry(k).or_default() for a Vec value
MapOrDefault(m, k) == IF MapHas(m, k) THEN m ELSE Append(m, [key |-> k, val |-> << >>])

(***************************************************************************)
(* Compile ids.                                                            *)
(***************************************************************************)
CompileId(f, c, a) == [frame_id |-> f, frame_compile_id |-> c, attempt |-> a]

\* impl Display for CompileId: "[f/c]", or "[f/c_a]" when the attempt is not 0
CompileId_Display(c) ==
    IF c.attempt # 0 THEN << c.frame_id, c.frame_compile_id, c.attempt >>
    ELSE << c.frame_id, c.frame_compile_id >>

\* a directory named by the compilation alone, whatever the attempt
compile_id_dir_without_attempt(compile_id, lineno) ==
    IF IsSome(compile_id)
    THEN [kind |-> "compile",
          id |-> << compile_id[1].frame_id, compile_id[1].frame_compile_id, 0 >>]
    ELSE [kind |-> "unknown", id |-> << lineno >>]

\* the directory a compile id's artifacts go to: "f_c_a", else "unknown_<lineno>"
compile_id_dir(compile_id, lineno) ==
    IF IsSome(compile_id)
    THEN [kind |-> "compile",
          id |-> << compile_id[1].frame_id, compile_id[1].frame_compile_id,
                    compile_id[1].attempt >>]
    ELSE [kind |-> "unknown", id |-> << lineno >>]

\* let mut cid = compile_id.clone(); if let Some(c) = cid.as_mut() { c.attempt = 0 }
zero_attempt(cid) ==
    IF IsSome(cid) THEN Some([cid[1] EXCEPT !.attempt = 0]) ELSE None

(***************************************************************************)
(* Log lines.  A line is blank, or starts with a tab (a continuation line  *)
(* carrying the tokens after the tab), or is any other text.  A line has   *)
(* the glog prefix or not, and the text after the prefix decodes to an     *)
(* Envelope or not.                                                        *)
(***************************************************************************)
BlankLine == [t |-> "blank", s |-> << >>, e |-> None]
TabLine(s) == [t |-> "tab", s |-> s, e |-> None]
NoGlogLine == [t |-> "text", s |-> << >>, e |-> None]
NoJsonLine == [t |-> "glog", s |-> << >>, e |-> None]
EnvLine(e) == [t |-> "glog", s |-> << >>, e |-> Some(e)]

\* Ok(l) if !l.is_empty()
is_empty(line) == line.t = "blank"
\* l.starts_with('\t')
starts_with_tab(line) == line.t = "tab"
\* re_glog.captures(&line): the regex is searched for anywhere in the line
re_glog_captures(line) == line.t = "glog"
\* serde_json::from_str::<Envelope>(payload)
from_str_Envelope(line) == line.e

(***************************************************************************)
(* Envelopes.  md maps each discriminant present in the JSON object to its *)
(* metadata; other is the set of unrecognized field names (_other).        *)
(***************************************************************************)
Envelope == [rank |-> None, compile_id |-> None, has_payload |-> None,
             stack |-> None, str |-> None, md |-> << >>, other |-> {}]

Has(e, field) == field \in DOMAIN e.md
WithMd(e, field, m) == [e EXCEPT !.md = (field :> m) @@ e.md]

(***************************************************************************)
(* Payloads and digests.  A payload is a sequence of tokens; "\n" is the   *)
(* newline the decoder inserts between continuation lines.  MD5 is         *)
(* collision free on the payloads of the model: a well-formed digest is    *)
(* the record of the payload it is the digest of.  A declared has_payload  *)
(* is such a digest or a string that does not decode as 16 hex bytes.      *)
(***************************************************************************)
NL == "\n"
Md5(payload) == [hex |-> TRUE, of |-> payload]
MalformedDigest == [hex |-> FALSE, of |-> << >>]

\* base16ct::lower::decode(expect, &mut expect_buf).is_ok()
base16_decode_ok(expect) == expect.hex

\* the payload is JSON text: exactly one value, around it only whitespace
JsonTokens == { "[]", "{}" }
is_json(payload) ==
    /\ Cardinality({ i \in 1..Len(payload) : payload[i] \in JsonTokens }) = 1
    /\ \A i \in 1..Len(payload) : payload[i] \in JsonTokens \cup { NL }
\* serde_json::from_str::<Vec<DynamoGuard>>(payload).is_ok()
is_json_list(payload) ==
    /\ is_json(payload)
    /\ \E i \in 1..Len(payload) : payload[i] = "[]"
\* the decoded value: whitespace is dropped
json_value(payload) == SelectSeq(payload, LAMBDA t : t \in JsonTokens)

\* the index of the first non-blank line at or after p (Len(file) + 1: none)
RECURSIVE next_line(_, _)
next_line(f, p) ==
    IF p > Len(f) THEN Len(f) + 1
    ELSE IF is_empty(f[p]) THEN next_line(f, p + 1)
    ELSE p

\* a reader that pushes the newline before every line, the first included
RECURSIVE read_payload_newline_first(_, _, _, _)
read_payload_newline_first(f, p, acc, first) ==
    LET k == next_line(f, p) IN
    IF k <= Len(f) /\ starts_with_tab(f[k])
    THEN read_payload_newline_first(f, k + 1, Append(acc, NL) \o f[k].s, FALSE)
    ELSE [payload |-> acc, pos |-> p]

\* while let Some(..) = iter.next_if(|(_, l)| l.starts_with('\t')) { ... }
\* acc is the payload so far, first the flag of the loop, p the read position
RECURSIVE read_payload(_, _, _, _)
read_payload(f, p, acc, first) ==
    LET k == next_line(f, p) IN
    IF k <= Len(f) /\ starts_with_tab(f[k])
    THEN read_payload(f, k + 1,
                      (IF first THEN acc ELSE Append(acc, NL)) \o f[k].s, FALSE)
    ELSE [payload |-> acc, pos |-> p]

\* a digest check that does not count a digest it cannot decode
payload_md5_fails_ignores_malformed(expect, payload) ==
    IF base16_decode_ok(expect) THEN expect # Md5(payload) ELSE FALSE

\* the digest check of lib.rs: TRUE when fail_payload_md5 is to be counted
payload_md5_fails(expect, payload) ==
    IF base16_decode_ok(expect) THEN expect # Md5(payload) ELSE TRUE

(***************************************************************************)
(* The rank gate.                                                          *)
(***************************************************************************)
\* a gate that lets every record without a rank through
rank_gate_drops_absent_passes(expected, rank) ==
    IsSome(expected) /\ IsSome(rank) /\ expected[1] # rank

\* Some(rank) => if rank != e.rank { other_rank += 1; continue }
rank_gate_drops(expected, rank) == IsSome(expected) /\ expected[1] # rank

(***************************************************************************)
(* The intern table, file names and frames.  A file name is a sequence of  *)
(* tokens; a directory token ends with "/".                                *)
(***************************************************************************)
Unknown == << "(unknown)" >>
LinkTree == "#link-tree/"
SeedDir == "buck-seed-nspid1/"
ConvertFramePy == "torch/_dynamo/convert_frame.py"

\* intern_table.get(&id).map_or("(unknown)", |s| s.as_str())
unintern_str(table, id) == IF id \in DOMAIN table THEN table[id] ELSE Unknown

FirstIdx(s, tok) == CHOOSE i \in 1..Len(s) : s[i] = tok /\ \A j \in 1..(i - 1) : s[j] # tok

\* the part up to the first LinkTree token, if any, of s
UpToLinkTree(s) ==
    IF LinkTree \in Range(s) THEN SubSeq(s, 1, FirstIdx(s, LinkTree) - 1) ELSE s

\* filename.split("#link-tree/") has more than one part: return parts[1];
\* else cut through the first "...-seed-nspid.../" directory; else unchanged
simplify_filename(filename) ==
    IF LinkTree \in Range(filename)
    THEN UpToLinkTree(SubSeq(filename, FirstIdx(filename, LinkTree) + 1, Len(filename)))
    ELSE IF SeedDir \in Range(filename)
    THEN SubSeq(filename, FirstIdx(filename, SeedDir) + 1, Len(filename))
    ELSE filename

Frame(id, name) == [filename |-> id, line |-> 1, name |-> name]

\* impl fmt::Display for FrameSummary, with the table as it is when called
FrameSummary_Display(table, frame) ==
    [filename |-> simplify_filename(unintern_str(table, frame.filename)),
     line |-> frame.line, name |-> frame.name]

all_target_frames ==
    << << << ConvertFramePy, "catch_errors" >>,
          << ConvertFramePy, "_convert_frame" >>,
          << ConvertFramePy, "_convert_frame_assert" >> >>,
       << << ConvertFramePy, "__call__" >>,
          << ConvertFramePy, "__call__" >>,
          << ConvertFramePy, "__call__" >> >> >>

\* suffix.iter().zip(target_frames.iter()).all(..): the pairs of the shorter of
\* the two are tested; no pair, and the test holds
suffix_matches(table, suffix, target) ==
    \A i \in 1..(IF Len(suffix) < Len(target) THEN Len(suffix) ELSE Len(target)) :
        /\ simplify_filename(unintern_str(table, suffix[i].filename)) = << target[i][1] >>
        /\ suffix[i].name = target[i][2]

\* Vec::truncate(n): nothing happens when n is not below the length
truncate(frames, n) == IF n < Len(frames) THEN SubSeq(frames, 1, n) ELSE frames

\* the loop over the triples; len is read once, before the loop, so after a
\* truncation the suffix &frames[len - 3..] of the next round is empty
RECURSIVE remove_suffixes_from(_, _, _, _)
remove_suffixes_from(table, frames, len, k) ==
    IF k > Len(all_target_frames) THEN frames
    ELSE LET target == all_target_frames[k]
             hit == /\ len >= Len(target)
                    /\ suffix_matches(table,
                           SubSeq(frames, len - Len(target) + 1, Len(frames)), target)
         IN remove_suffixes_from(
                table,
                IF hit THEN truncate(frames, len - Len(target)) ELSE frames,
                len, k + 1)

\* a trimmer that reads the length again for every triple
strip_every_triple(table, frames) ==
    remove_suffixes_from(table, remove_suffixes_from(table, frames, Len(frames), 1),
                         Len(remove_suffixes_from(table, frames, Len(frames), 1)), 1)

maybe_remove_convert_frame_suffixes(table, frames) ==
    remove_suffixes_from(table, frames, Len(frames), 1)

(***************************************************************************)
(* The stack trie.  A trie is the sequence of its nodes in creation order, *)
(* each node named by the path of frames from the root; the root is node 1.*)
(* The children of a node, in insertion order, are the nodes one frame     *)
(* below it, in creation order.                                            *)
(***************************************************************************)
StackTrieNode_default == << [path |-> << >>, terminal |-> << >>] >>

NodeIdx(trie, path) == CHOOSE i \in 1..Len(trie) : trie[i].path = path
HasNode(trie, path) == \E i \in 1..Len(trie) : trie[i].path = path

\* cur = cur.children.entry(frame).or_default(), for every frame of the stack
RECURSIVE trie_walk(_, _, _)
trie_walk(trie, stack, k) ==
    IF k > Len(stack) THEN trie
    ELSE LET path == SubSeq(stack, 1, k) IN
         trie_walk(IF HasNode(trie, path) THEN trie
                   ELSE Append(trie, [path |-> path, terminal |-> << >>]),
                   stack, k + 1)

StackTrieNode_insert(trie, stack, compile_id) ==
    LET t == trie_walk(trie, stack, 1) IN
    [t EXCEPT ![NodeIdx(t, stack)].terminal = Append(@, compile_id)]

StackTrieNode_insert_no_terminal(trie, stack) == trie_walk(trie, stack, 1)

StackTrieNode_is_empty(trie) == Len(trie) = 1 /\ trie[1].terminal = << >>

children(trie, path) ==
    SelectSeq(trie, LAMBDA n : /\ Len(n.path) = Len(path) + 1
                              /\ SubSeq(n.path, 1, Len(path)) = path)

\* the key the coloring looks up in the metrics index: the terminal itself
terminal_lookup_key(t) == t

\* the CSS class of a terminal; mb_metrics_index is an Option of the index
ok_class(mb_metrics_index, t) ==
    IF ~IsSome(mb_metrics_index) THEN "status-missing"
    ELSE LET metrics_idx == mb_metrics_index[1]
             k == terminal_lookup_key(t) IN
         IF ~MapHas(metrics_idx, k) THEN "status-missing"
         ELSE LET m == MapGet(metrics_idx, k) IN
              IF \E i \in 1..Len(m) : IsSome(m[i].fail_type) THEN "status-error"
              ELSE IF \E i \in 1..Len(m) :
                         (IF IsSome(m[i].graph_op_count)
                          THEN m[i].graph_op_count[1] ELSE 0) = 0
                   THEN "status-empty"
              ELSE IF \E i \in 1..Len(m) :
                         ~(IF IsSome(m[i].restart_reasons)
                           THEN m[i].restart_reasons[1] = << >> ELSE FALSE)
                   THEN "status-break"
              ELSE "status-ok"

\* the links written before a frame: one per terminal of its node
star(mb_metrics_index, terminal) ==
    [i \in 1..Len(terminal) |->
        IF IsSome(terminal[i])
        THEN [known |-> TRUE, cid |-> CompileId_Display(terminal[i][1]),
              class |-> ok_class(mb_metrics_index, terminal[i])]
        ELSE [known |-> FALSE, cid |-> << >>, class |-> ""]]

\* fmt_inner: one item per child; a node with several children nests each
\* child's subtree inside the item, a node with one child writes it after
RECURSIVE fmt_inner(_, _, _, _)
fmt_inner(table, trie, path, mb_metrics_index) ==
    LET ch == children(trie, path)
        item(n) == [marker |-> Len(ch) > 1,
                    star |-> star(mb_metrics_index, n.terminal),
                    frame |-> FrameSummary_Display(table, n.path[Len(n.path)]),
                    sub |-> IF Len(ch) > 1
                            THEN fmt_inner(table, trie, n.path, mb_metrics_index)
                            ELSE << >>]
    IN Concat([i \in 1..Len(ch) |->
                  << item(ch[i]) >> \o
                  (IF Len(ch) > 1 THEN << >>
                   ELSE fmt_inner(table, trie, ch[i].path, mb_metrics_index))])

StackTrieNode_fmt(table, trie, mb_metrics_index) ==
    fmt_inner(table, trie, << >>, mb_metrics_index)

\* format_stack of parsers.rs: a fresh trie with the one stack, no terminal
format_stack(table, stack) ==
    StackTrieNode_fmt(table,
        StackTrieNode_insert_no_terminal(StackTrieNode_default, stack), None)

\* every link of a rendered trie, nested items included
RECURSIVE rendered_links(_)
rendered_links(html) ==
    Concat([i \in 1..Len(html) |-> html[i].star \o rendered_links(html[i].sub)])

(***************************************************************************)
(* Paths, analyzer outputs and the analyzers of parsers.rs.                *)
(***************************************************************************)
Path(dir, stem, ext) == [dir |-> dir, stem |-> stem, seq |-> None, ext |-> ext]
TopDir == [kind |-> "", id |-> << >>]
DumpFileDir == [kind |-> "dump_file", id |-> << >>]
\* a plain string (a link's url or name) held where a path may be held
Text(s) == [dir |-> [kind |-> "text", id |-> << >>], stem |-> << s >>,
            seq |-> None, ext |-> ""]

File(path, contents) == [kind |-> "File", path |-> path, contents |-> contents,
                         name |-> ""]
GlobalFile(path, contents) == [kind |-> "GlobalFile", path |-> path,
                               contents |-> contents, name |-> ""]
\* Link(name, url): the url is held in path
Link(name, url) == [kind |-> "Link", path |-> Text(url),
                    contents |-> [tmpl |-> "", ctx |-> << >>], name |-> name]

Ok(outs) == [status |-> "ok", outs |-> outs]
Err == [status |-> "err", outs |-> << >>]
Panic == [status |-> "panic", outs |-> << >>]

PlainText(payload) == [tmpl |-> "text", ctx |-> payload]

\* subdir.join(filename) under the compile id's directory
simple_file_output(stem, ext, lineno, compile_id, contents) ==
    Ok(<< File(Path(compile_id_dir(compile_id, lineno), stem, ext), contents) >>)

\* str::lines(): the payload cut at its newlines, a final empty piece dropped
RECURSIVE split_lines(_, _)
split_lines(text, cur) ==
    IF text = << >> THEN (IF cur = << >> THEN << >> ELSE << cur >>)
    ELSE IF Head(text) = NL THEN << cur >> \o split_lines(Tail(text), << >>)
    ELSE split_lines(Tail(text), Append(cur, Head(text)))

anchor_source(text) == [tmpl |-> "anchor_source", ctx |-> split_lines(text, << >>)]

SentinelNames ==
    << "optimize_ddp_split_graph", "compiled_autograd_graph", "aot_forward_graph",
       "aot_backward_graph", "aot_joint_graph", "inductor_post_grad_graph",
       "dynamo_cpp_guards_str" >>

\* default_parsers: the envelope field each analyzer is triggered by, in order
default_parsers ==
    SentinelNames \o
    << "graph_dump", "dynamo_output_graph", "dynamo_guards", "inductor_output_code",
       "optimize_ddp_split_child", "aot_autograd_backward_compilation_metrics",
       "bwd_compilation_metrics", "link", "artifact", "dump_file" >>

\* StructuredLogParser::name
parser_name(p) == IF p = "link" THEN "link_parser" ELSE p

\* StructuredLogParser::get_metadata
get_metadata(p, e) == IF Has(e, p) THEN Some(e.md[p]) ELSE None

\* the output_files of a compilation-metrics page: each url without its directory
remove_prefix(x) == [x EXCEPT !.dir = TopDir]

\* CompilationMetricsParser::parse, with the indices as they are when it runs
CompilationMetricsParser_parse(lineno, m, compile_id, table, stack_idx, output_files) ==
    LET cid == zero_attempt(compile_id)
        stack_html == IF cid \in DOMAIN stack_idx
                      THEN format_stack(table, stack_idx[cid]) ELSE << >>
        files == [i \in 1..Len(output_files) |->
                     [output_files[i] EXCEPT !.url = remove_prefix(@),
                                             !.name = remove_prefix(@)]]
        context == [m |-> m,
                    compile_id |-> IF IsSome(compile_id)
                                   THEN Some(CompileId_Display(compile_id[1])) ELSE None,
                    stack_html |-> stack_html,
                    output_files |-> files,
                    compile_id_dir |-> compile_id_dir(compile_id, lineno)]
    IN simple_file_output(<< "compilation_metrics" >>, "html", lineno, compile_id,
                          [tmpl |-> "compilation_metrics.html", ctx |-> context])

\* StructuredLogParser::parse of the default analyzers
parse(p, lineno, md, compile_id, payload, cfg) ==
    CASE p \in Range(SentinelNames) \cup { "dynamo_output_graph" } ->
            simple_file_output(<< p >>, "txt", lineno, compile_id, PlainText(payload))
      [] p = "graph_dump" ->
            simple_file_output(<< md.name >>, "txt", lineno, compile_id,
                               PlainText(payload))
      [] p = "dynamo_guards" ->
            IF is_json_list(payload)
            THEN simple_file_output(<< p >>, "html", lineno, compile_id,
                     [tmpl |-> "dynamo_guards.html", ctx |-> json_value(payload)])
            ELSE Err
      [] p = "inductor_output_code" ->
            simple_file_output(
                IF IsSome(md.filename) /\ IsSome(md.filename[1].file_stem)
                THEN << "inductor_output_code_", md.filename[1].file_stem[1] >>
                ELSE << p >>,
                IF cfg.plain_text THEN "txt" ELSE "html",
                lineno, compile_id,
                IF cfg.plain_text THEN PlainText(payload)
                ELSE [tmpl |-> "highlighted_html", ctx |-> payload])
      [] p = "optimize_ddp_split_child" ->
            simple_file_output(<< "optimize_ddp_split_child_", md.name >>, "txt",
                               lineno, compile_id, PlainText(payload))
      [] p \in { "aot_autograd_backward_compilation_metrics",
                 "bwd_compilation_metrics" } ->
            simple_file_output(<< p >>, "html", lineno, compile_id,
                [tmpl |-> p,
                 ctx |-> [m |-> md,
                          compile_id |-> IF IsSome(compile_id)
                                         THEN Some(CompileId_Display(compile_id[1]))
                                         ELSE None]])
      [] p = "link" -> Ok(<< Link(md.name, md.url) >>)
      [] p = "artifact" ->
            CASE md.encoding = "string" ->
                    simple_file_output(<< md.name >>, "txt", lineno, compile_id,
                                       PlainText(payload))
              [] md.encoding = "json" ->
                    \* serde_json::from_str(&payload).unwrap()
                    IF is_json(payload)
                    THEN simple_file_output(<< md.name >>, "json", lineno, compile_id,
                             [tmpl |-> "json_pretty", ctx |-> json_value(payload)])
                    ELSE Panic
              [] OTHER -> Err
      [] p = "dump_file" ->
            Ok(<< GlobalFile(
                    Path(DumpFileDir,
                         IF IsSome(md.eval_with_key_id)
                         THEN << "eval_with_key_", md.eval_with_key_id[1] >>
                         ELSE << md.name >>,
                         "html"),
                    anchor_source(payload)) >>)

(***************************************************************************)
(* run_parser of lib.rs.  L is what the call may change: output,           *)
(* output_count, the bucket compile_directory points to, stats, and panic, *)
(* set when the analyzer panicked (everything after it is skipped).        *)
(***************************************************************************)
BadgeNames == { "fx_graph_cache_miss", "fx_graph_cache_hit", "fx_graph_cache_bypass" }
contains(filename, s) == s \in Range(filename.stem)

extract_suffix(filename) ==
    IF contains(filename, "fx_graph_cache_miss") THEN "cross-mark"
    ELSE IF contains(filename, "fx_graph_cache_hit") THEN "check-mark"
    ELSE IF contains(filename, "fx_graph_cache_bypass") THEN "question-mark"
    ELSE ""

\* a rename that leaves the analyzer's file name as it is
with_output_count_unnumbered(raw_filename, count) == raw_filename

\* raw_filename.with_file_name(stem + "_" + output_count + "." + extension)
with_output_count(raw_filename, count) == [raw_filename EXCEPT !.seq = Some(count)]

OutputFile(url, name, number, suffix) ==
    [url |-> url, name |-> name, number |-> number, suffix |-> suffix]

\* a counter that a Link does not advance
next_output_count_link_free(kind, count) == IF kind = "Link" THEN count ELSE count + 1

\* the counter after an output of the given kind took its number
next_output_count(kind, count) == count + 1

\* a match whose Link arm also emits a file under the link's url
push_parser_result_link_emits(L, r) ==
    CASE r.kind = "File" ->
            LET filename == with_output_count(r.path, L.output_count) IN
            [L EXCEPT !.output = Append(@, [path |-> filename, contents |-> r.contents]),
                      !.bucket = Append(@, OutputFile(filename, filename, L.output_count,
                                                      extract_suffix(filename))),
                      !.output_count = next_output_count("File", @)]
      [] r.kind = "GlobalFile" ->
            [L EXCEPT !.output = Append(@, [path |-> r.path, contents |-> r.contents]),
                      !.bucket = Append(@, OutputFile(r.path, r.path, L.output_count,
                                                      extract_suffix(r.path))),
                      !.output_count = next_output_count("GlobalFile", @)]
      [] r.kind = "Link" ->
            [L EXCEPT !.output = Append(@, [path |-> r.path, contents |-> r.contents]),
                      !.bucket = Append(@, OutputFile(r.path, Text(r.name),
                                                      L.output_count, "")),
                      !.output_count = next_output_count("Link", @)]

\* one ParserOutput handled by the match of run_parser
push_parser_result(L, r) ==
    CASE r.kind = "File" ->
            LET filename == with_output_count(r.path, L.output_count) IN
            [L EXCEPT !.output = Append(@, [path |-> filename, contents |-> r.contents]),
                      !.bucket = Append(@, OutputFile(filename, filename, L.output_count,
                                                      extract_suffix(filename))),
                      !.output_count = next_output_count("File", @)]
      [] r.kind = "GlobalFile" ->
            [L EXCEPT !.output = Append(@, [path |-> r.path, contents |-> r.contents]),
                      !.bucket = Append(@, OutputFile(r.path, r.path, L.output_count,
                                                      extract_suffix(r.path))),
                      !.output_count = next_output_count("GlobalFile", @)]
      [] r.kind = "Link" ->
            [L EXCEPT !.bucket = Append(@, OutputFile(r.path, Text(r.name),
                                                      L.output_count, "")),
                      !.output_count = next_output_count("Link", @)]

RECURSIVE push_parser_results(_, _)
push_parser_results(L, results) ==
    IF results = << >> THEN L
    ELSE push_parser_results(push_parser_result(L, Head(results)), Tail(results))

\* an error routing that counts every analyzer's error in fail_parser
handle_results_all_fail_parser(L, name, results) ==
    CASE results.status = "ok" -> push_parser_results(L, results.outs)
      [] results.status = "err" -> [L EXCEPT !.stats.fail_parser = @ + 1]
      [] results.status = "panic" -> [L EXCEPT !.panic = TRUE]

\* what run_parser does with the Result of parse
handle_results(L, name, results) ==
    CASE results.status = "ok" -> push_parser_results(L, results.outs)
      [] results.status = "err" ->
            IF name = "dynamo_guards"
            THEN [L EXCEPT !.stats.fail_dynamo_guards_json = @ + 1]
            ELSE [L EXCEPT !.stats.fail_parser = @ + 1]
      [] results.status = "panic" -> [L EXCEPT !.panic = TRUE]

run_parser(L, p, e, payload, lineno, cfg) ==
    IF L.panic \/ ~IsSome(get_metadata(p, e)) THEN L
    ELSE handle_results(L, parser_name(p),
                        parse(p, lineno, e.md[p], e.compile_id, payload, cfg))

\* for parser in &all_parsers { run_parser(..) }
RECURSIVE run_all_parsers(_, _, _, _, _, _)
run_all_parsers(L, k, e, payload, lineno, cfg) ==
    IF k > Len(default_parsers) THEN L
    ELSE run_all_parsers(run_parser(L, default_parsers[k], e, payload, lineno, cfg),
                         k + 1, e, payload, lineno, cfg)

(***************************************************************************)
(* One iteration of the loop of parse_path.  S holds the locals of the     *)
(* call and the intern table (table); S.error names the error the call     *)
(* returned with, "" while it has not returned.                            *)
(***************************************************************************)
Stats_default ==
    [ok |-> 0, other_rank |-> 0, fail_glog |-> 0, fail_json |-> 0,
     fail_payload_md5 |-> 0, fail_dynamo_guards_json |-> 0, fail_parser |-> 0,
     unknown |-> 0]

\* an index keyed by the compile id as the record carries it
metrics_index_key_with_attempt(compile_id) == compile_id

\* the key a compilation_metrics record is stored under in the metrics index
metrics_index_key(compile_id) == zero_attempt(compile_id)

\* the key a dynamo_start stack is stored under in the stack index
stack_index_key(compile_id) == compile_id

\* a link that names the sequence number the next output will take
failure_id_next_count(compile_id, lineno, count) ==
    IF IsSome(compile_id)
    THEN [known |-> TRUE,
          href |-> [Path(compile_id_dir(compile_id, lineno),
                         << "compilation_metrics" >>, "html")
                    EXCEPT !.seq = Some(count)],
          cid |-> CompileId_Display(compile_id[1])]
    ELSE [known |-> FALSE, href |-> Path(TopDir, << >>, ""), cid |-> << >>]

\* the link of a failure row: the metrics page that was just emitted
failure_id(compile_id, lineno, count) ==
    IF IsSome(compile_id)
    THEN [known |-> TRUE,
          href |-> [Path(compile_id_dir(compile_id, lineno),
                         << "compilation_metrics" >>, "html")
                    EXCEPT !.seq = Some(count - 1)],
          cid |-> CompileId_Display(compile_id[1])]
    ELSE [known |-> FALSE, href |-> Path(TopDir, << >>, ""), cid |-> << >>]

Restart(reason) == [kind |-> "Restart", fields |-> << reason >>]
Failure(type, reason, filename, lineno) ==
    [kind |-> "Failure", fields |-> << type, reason, filename, lineno >>]

\* the analyzers, then the compilation-metrics analyzer when it applies
analyzer_pass(S, e, payload, lineno, cfg) ==
    LET dir == MapOrDefault(S.directory, e.compile_id)
        L0 == [output |-> S.output, output_count |-> S.output_count,
               bucket |-> MapGet(dir, e.compile_id), stats |-> S.stats,
               panic |-> FALSE]
        L1 == run_all_parsers(L0, 1, e, payload, lineno, cfg)
        L2 == IF Has(e, "compilation_metrics") /\ ~L1.panic
              THEN handle_results(L1, "compilation_metrics",
                       CompilationMetricsParser_parse(
                           lineno, e.md["compilation_metrics"], e.compile_id,
                           S.table, S.stack_index, L1.bucket))
              ELSE L1
    IN [S EXCEPT !.directory = MapPut(dir, e.compile_id, L2.bucket),
                 !.output = L2.output,
                 !.output_count = L2.output_count,
                 !.stats = L2.stats,
                 !.error = IF L2.panic THEN "panic" ELSE ""]

\* a row for the first restart reason of a record only
restart_rows_first_only(id, m) ==
    IF IsSome(m.restart_reasons) /\ m.restart_reasons[1] # << >>
    THEN << [id |-> id, reason |-> Restart(m.restart_reasons[1][1])] >>
    ELSE << >>

\* if let Some(rr) = m.restart_reasons.as_ref() { for restart in rr { push } }
restart_rows(id, m) ==
    LET rr == IF IsSome(m.restart_reasons) THEN m.restart_reasons[1] ELSE << >>
    IN [i \in 1..Len(rr) |-> [id |-> id, reason |-> Restart(rr[i])]]

\* if let Some(ref m) = e.compilation_metrics { ... }, after its analyzer ran
metrics_step(S, e, lineno) ==
    IF S.error # "" \/ ~Has(e, "compilation_metrics") THEN S
    ELSE LET m == e.md["compilation_metrics"]
             id == failure_id(e.compile_id, lineno, S.output_count)
             restarts == restart_rows(id, m)
             S1 == [S EXCEPT !.failures = @ \o restarts]
         IN IF IsSome(m.fail_type) /\ ~IsSome(m.fail_reason)
            THEN [S1 EXCEPT !.error = "Fail reason not found"]
            ELSE LET S2 == IF IsSome(m.fail_type)
                           THEN [S1 EXCEPT !.failures = Append(@,
                                    [id |-> id,
                                     reason |-> Failure(m.fail_type[1], m.fail_reason[1],
                                         IF IsSome(m.fail_user_frame_filename)
                                         THEN m.fail_user_frame_filename[1] ELSE "N/A",
                                         IF IsSome(m.fail_user_frame_lineno)
                                         THEN m.fail_user_frame_lineno[1] ELSE 0)])]
                           ELSE S1
                     key == metrics_index_key(e.compile_id)
                     idx == MapOrDefault(S2.metrics_index, key)
                 IN [S2 EXCEPT !.metrics_index =
                                   MapPut(idx, key, Append(MapGet(idx, key), m))]

\* if let Some(stack) = e.stack { unknown_stack_trie.insert(stack, None) }
stack_step(S, e) ==
    IF S.error # "" \/ ~IsSome(e.stack) THEN S
    ELSE [S EXCEPT !.unknown_stack_trie = StackTrieNode_insert(@, e.stack[1], None)]

\* chromium_events.push(serde_json::from_str(&payload)?)
chromium_step(S, e, payload) ==
    IF S.error # "" \/ ~Has(e, "chromium_event") THEN S
    ELSE IF is_json(payload)
    THEN [S EXCEPT !.chromium_events = Append(@, json_value(payload))]
    ELSE [S EXCEPT !.error = "chromium_event payload is not JSON"]

\* if let Some(m) = e.dynamo_start { if let Some(mut stack) = m.stack { ... } }
dynamo_start_step(S, e) ==
    IF S.error # "" \/ ~Has(e, "dynamo_start") THEN S
    ELSE IF ~IsSome(e.md["dynamo_start"].stack) THEN S
    ELSE LET stack == maybe_remove_convert_frame_suffixes(
                          S.table, e.md["dynamo_start"].stack[1])
         IN [S EXCEPT !.stack_index = (stack_index_key(e.compile_id) :> stack) @@ @,
                      !.stack_trie = StackTrieNode_insert(@, stack, e.compile_id)]

\* an envelope that passed the rank gate
dispatch(S, e, payload, lineno, cfg) ==
    dynamo_start_step(
        chromium_step(
            stack_step(
                metrics_step(analyzer_pass(S, e, payload, lineno, cfg), e, lineno),
                e),
            e, payload),
        e)

\* an interning record that leaves the table as it is
intern_table_insert_dropped(table, i, s) == table

\* intern_table.insert(i, s): a later string for an id replaces the earlier
intern_table_insert(table, i, s) == (i :> s) @@ table

\* a decoder that reads the tab lines after every envelope
envelope_payload_always_reads(f, i, e) == read_payload(f, i + 1, << >>, TRUE)

\* the payload of an envelope at line i and the read position after it
envelope_payload(f, i, e) ==
    IF IsSome(e.has_payload) THEN read_payload(f, i + 1, << >>, TRUE)
    ELSE [payload |-> << >>, pos |-> i + 1]

\* the body of `while let Some((lineno, line)) = iter.next()`
loop_body(S, f, cfg) ==
    LET i == next_line(f, S.pos)
        line == f[i]
    IN
    IF ~re_glog_captures(line)
    THEN [S EXCEPT !.stats.fail_glog = @ + 1, !.pos = i + 1]
    ELSE IF ~IsSome(from_str_Envelope(line))
    THEN [S EXCEPT !.stats.fail_json = @ + 1, !.pos = i + 1]
    ELSE
    LET e == from_str_Envelope(line)[1]
        S1 == [S EXCEPT !.stats.unknown = @ + Cardinality(e.other),
                        !.unknown_fields = @ \cup e.other,
                        !.pos = i + 1]
    IN
    IF IsSome(e.str)
    THEN [S1 EXCEPT !.table = intern_table_insert(@, e.str[1].i, e.str[1].s)]
    ELSE
    LET rp == envelope_payload(f, i, e)
        S2 == [S1 EXCEPT !.pos = rp.pos,
                         !.stats.fail_payload_md5 =
                             IF IsSome(e.has_payload)
                                /\ payload_md5_fails(e.has_payload[1], rp.payload)
                             THEN @ + 1 ELSE @]
    IN
    IF rank_gate_drops(S2.expected_rank, e.rank)
    THEN [S2 EXCEPT !.stats.other_rank = @ + 1]
    ELSE dispatch([S2 EXCEPT !.expected_rank = Some(e.rank), !.stats.ok = @ + 1],
                  e, rp.payload, i, cfg)

(***************************************************************************)
(* The end of parse_path: the terminal outputs and the strict checks.      *)
(***************************************************************************)
Output(path, contents) == [path |-> path, contents |-> contents]

\* a strict check that also counts unrecognized fields
strict_sum_with_unknown(st) ==
    st.fail_glog + st.fail_json + st.fail_payload_md5 + st.other_rank
        + st.fail_dynamo_guards_json + st.fail_parser + st.unknown

\* the sum the strict check tests
strict_sum(st) ==
    st.fail_glog + st.fail_json + st.fail_payload_md5 + st.other_rank
        + st.fail_dynamo_guards_json + st.fail_parser

IndexContext(table) ==
    [directory |->
        [i \in 1..Len(directory) |->
            [key |-> IF IsSome(directory[i].key)
                     THEN Some(CompileId_Display(directory[i].key[1])) ELSE None,
             val |-> directory[i].val]],
     stack_trie_html |-> StackTrieNode_fmt(table, stack_trie, Some(metrics_index)),
     unknown_stack_trie_html |->
         StackTrieNode_fmt(table, unknown_stack_trie, Some(metrics_index)),
     has_unknown_stack_trie |-> ~StackTrieNode_is_empty(unknown_stack_trie),
     num_breaks |-> Len(failures),
     has_chromium_events |-> chromium_events # << >>]

\* the terminal outputs with the index page pushed before the events
terminal_outputs_index_first ==
    << Output(Path(TopDir, << "failures_and_restarts" >>, "html"),
              [tmpl |-> "failures_and_restarts.html", ctx |-> failures]),
       Output(Path(TopDir, << "index" >>, "html"),
              [tmpl |-> "index.html", ctx |-> IndexContext(INTERN_TABLE)]),
       Output(Path(TopDir, << "chromium_events" >>, "json"),
              [tmpl |-> "json_pretty", ctx |-> chromium_events]),
       Output(Path(TopDir, << "raw" >>, "log"),
              [tmpl |-> "verbatim", ctx |-> file]) >>

terminal_outputs ==
    << Output(Path(TopDir, << "failures_and_restarts" >>, "html"),
              [tmpl |-> "failures_and_restarts.html", ctx |-> failures]),
       Output(Path(TopDir, << "chromium_events" >>, "json"),
              [tmpl |-> "json_pretty", ctx |-> chromium_events]),
       Output(Path(TopDir, << "index" >>, "html"),
              [tmpl |-> "index.html", ctx |-> IndexContext(INTERN_TABLE)]),
       Output(Path(TopDir, << "raw" >>, "log"),
              [tmpl |-> "verbatim", ctx |-> file]) >>

OkResult(outs) == [kind |-> "Ok", msg |-> "", outputs |-> outs]
ErrResult(msg) == [kind |-> "Err", msg |-> msg, outputs |-> << >>]
PanicResult == [kind |-> "Panic", msg |-> "", outputs |-> << >>]
NoResult == [kind |-> "", msg |-> "", outputs |-> << >>]

\* a compile-id check that looks for outputs in the None bucket
final_result_nonempty_bucket(cfg, st, dir, outs) ==
    IF cfg.strict /\ strict_sum(st) > 0 THEN ErrResult("Something went wrong")
    ELSE IF cfg.strict_compile_id /\ MapHas(dir, None) /\ MapGet(dir, None) # << >>
    THEN ErrResult("Some log entries did not have compile id")
    ELSE OkResult(outs)

\* what parse_path returns once the terminal outputs are pushed
final_result(cfg, st, dir, outs) ==
    IF cfg.strict /\ strict_sum(st) > 0 THEN ErrResult("Something went wrong")
    ELSE IF cfg.strict_compile_id /\ MapHas(dir, None)
    THEN ErrResult("Some log entries did not have compile id")
    ELSE OkResult(outs)

(***************************************************************************)
(* The state machine.                                                      *)
(***************************************************************************)
Locals ==
    [pos |-> pos, stats |-> stats, expected_rank |-> expected_rank,
     directory |-> directory, output |-> output, output_count |-> output_count,
     metrics_index |-> metrics_index, stack_index |-> stack_index,
     stack_trie |-> stack_trie, unknown_stack_trie |-> unknown_stack_trie,
     failures |-> failures, chromium_events |-> chromium_events,
     unknown_fields |-> unknown_fields, table |-> INTERN_TABLE, error |-> ""]

\* the locals of parse_path as it declares them, before the loop
FreshLocals ==
    [pos |-> 1, stats |-> Stats_default, expected_rank |-> None,
     directory |-> << >>, output |-> << >>, output_count |-> 0,
     metrics_index |-> << >>, stack_index |-> << >>,
     stack_trie |-> StackTrieNode_default,
     unknown_stack_trie |-> StackTrieNode_default,
     failures |-> << >>, chromium_events |-> << >>, unknown_fields |-> {}]

LocalsAre(N) ==
    /\ pos = N.pos
    /\ stats = N.stats
    /\ expected_rank = N.expected_rank
    /\ directory = N.directory
    /\ output = N.output
    /\ output_count = N.output_count
    /\ metrics_index = N.metrics_index
    /\ stack_index = N.stack_index
    /\ stack_trie = N.stack_trie
    /\ unknown_stack_trie = N.unknown_stack_trie
    /\ failures = N.failures
    /\ chromium_events = N.chromium_events
    /\ unknown_fields = N.unknown_fields

DefaultConfig == [strict |-> FALSE, strict_compile_id |-> FALSE, plain_text |-> FALSE]

\* no second call: the process calls parse_path from one thread
NoPeer == [pc |-> "none", file |-> << >>, locals |-> << >>]

\* a process that is about to call parse_path on a path: a regular file
\* holding some lines of the alphabet, or something that is no file
InitWithin(alphabet, configs, n) ==
    /\ peer = NoPeer
    /\ \/ is_file = TRUE /\ file \in SeqsUpTo(alphabet, n)
       \/ is_file = FALSE /\ file = << >>
    /\ config \in configs
    /\ INTERN_TABLE = << >>
    /\ run = 1
    /\ first_result = NoResult
    /\ pc = "start"
    /\ result = NoResult
    /\ LocalsAre(FreshLocals)

InitWith(alphabet, configs) == InitWithin(alphabet, configs, MaxLines)

\* if !path.is_file() { bail!(..) }
Bail ==
    /\ pc = "start"
    /\ ~is_file
    /\ pc' = "done"
    /\ result' = ErrResult("is not a file")
    /\ UNCHANGED << peer, is_file, file, config, INTERN_TABLE, run, first_result, pos,
                    stats, expected_rank, directory, output, output_count,
                    metrics_index, stack_index, stack_trie, unknown_stack_trie,
                    failures, chromium_events, unknown_fields >>

\* File::open(path) and the set-up before the loop
Open ==
    /\ pc = "start"
    /\ is_file
    /\ pc' = "ingest"
    /\ UNCHANGED << peer, is_file, file, config, INTERN_TABLE, run, first_result, result,
                    pos, stats, expected_rank, directory, output, output_count,
                    metrics_index, stack_index, stack_trie, unknown_stack_trie,
                    failures, chromium_events, unknown_fields >>

\* one iteration of the loop: a record line and the payload lines it consumes
ProcessLine ==
    /\ pc = "ingest"
    /\ next_line(file, pos) <= Len(file)
    /\ LET N == loop_body(Locals, file, config) IN
       /\ pos' = N.pos
       /\ stats' = N.stats
       /\ expected_rank' = N.expected_rank
       /\ directory' = N.directory
       /\ output' = N.output
       /\ output_count' = N.output_count
       /\ metrics_index' = N.metrics_index
       /\ stack_index' = N.stack_index
       /\ stack_trie' = N.stack_trie
       /\ unknown_stack_trie' = N.unknown_stack_trie
       /\ failures' = N.failures
       /\ chromium_events' = N.chromium_events
       /\ unknown_fields' = N.unknown_fields
       /\ INTERN_TABLE' = N.table
       /\ pc' = IF N.error = "" THEN "ingest" ELSE "done"
       /\ result' = IF N.error = "" THEN result
                    ELSE IF N.error = "panic" THEN PanicResult
                    ELSE ErrResult(N.error)
    /\ UNCHANGED << peer, is_file, file, config, run, first_result >>

\* the reader is exhausted: the terminal outputs and the strict checks
Finish ==
    /\ pc = "ingest"
    /\ next_line(file, pos) > Len(file)
    /\ output' = output \o terminal_outputs
    /\ result' = final_result(config, stats, directory, output')
    /\ pc' = "done"
    /\ UNCHANGED << peer, is_file, file, config, INTERN_TABLE, run, first_result, pos,
                    stats, expected_rank, directory, output_count, metrics_index,
                    stack_index, stack_trie, unknown_stack_trie, failures,
                    chromium_events, unknown_fields >>

\* the process calls parse_path once more, on the same path with the same
\* configuration: fresh locals, the intern table as the first call left it
Rerun ==
    /\ pc = "done"
    /\ run = 1
    /\ run' = 2
    /\ first_result' = result
    /\ pc' = "start"
    /\ result' = NoResult
    /\ pos' = FreshLocals.pos
    /\ stats' = FreshLocals.stats
    /\ expected_rank' = FreshLocals.expected_rank
    /\ directory' = FreshLocals.directory
    /\ output' = FreshLocals.output
    /\ output_count' = FreshLocals.output_count
    /\ metrics_index' = FreshLocals.metrics_index
    /\ stack_index' = FreshLocals.stack_index
    /\ stack_trie' = FreshLocals.stack_trie
    /\ unknown_stack_trie' = FreshLocals.unknown_stack_trie
    /\ failures' = FreshLocals.failures
    /\ chromium_events' = FreshLocals.chromium_events
    /\ unknown_fields' = FreshLocals.unknown_fields
    /\ UNCHANGED << peer, is_file, file, config, INTERN_TABLE >>

Next == Bail \/ Open \/ ProcessLine \/ Finish \/ Rerun

(***************************************************************************)
(* The logs the model reads.  Each specification draws the lines of the    *)
(* file from one alphabet, chosen so that the records its properties are   *)
(* about occur together.                                                   *)
(***************************************************************************)
C000 == Some(CompileId(0, 0, 0))
C001 == Some(CompileId(0, 0, 1))
C100 == Some(CompileId(1, 0, 0))

EmptyMetadata == [empty |-> TRUE]
Metrics == [fail_type |-> None, fail_reason |-> None,
            fail_user_frame_filename |-> None, fail_user_frame_lineno |-> None,
            graph_op_count |-> Some(1), restart_reasons |-> Some(<< >>)]

WithRank(e, r) == [e EXCEPT !.rank = r]
WithId(e, c) == [e EXCEPT !.compile_id = c]
WithPayload(e, h) == [e EXCEPT !.has_payload = Some(h)]
Graph(e) == WithMd(e, "dynamo_output_graph", EmptyMetadata)
Guards(e) == WithMd(e, "dynamo_guards", EmptyMetadata)
LinkTo(e) == WithMd(e, "link", [name |-> "name", url |-> "url"])
Artifact(e, name, encoding) ==
    WithMd(e, "artifact", [name |-> name, encoding |-> encoding])
DumpFile(e, name) ==
    WithMd(e, "dump_file", [name |-> name, eval_with_key_id |-> None])
CompilationMetrics(e, m) == WithMd(e, "compilation_metrics", m)
ChromiumEvent(e) == WithMd(e, "chromium_event", EmptyMetadata)
DynamoStart(e, stack) == WithMd(e, "dynamo_start", [stack |-> Some(stack)])
Str(e, s, i) == [e EXCEPT !.str = Some([s |-> s, i |-> i])]

UserPy == << "user.py" >>
UserFrame == Frame(1, "forward")
ConvertFrames == << Frame(0, "catch_errors"), Frame(0, "_convert_frame"),
                    Frame(0, "_convert_frame_assert") >>

\* ranks: records of rank 0, of rank 1 and without a rank, interning records
RankLines ==
    { EnvLine(Graph(WithRank(Envelope, r))) : r \in { None, Some(0), Some(1) } }
    \cup { EnvLine(Str(WithRank(Envelope, r), UserPy, 1)) : r \in { None, Some(1) } }

\* payloads: continuation lines, blank lines, declared digests
PayloadLines ==
    { BlankLine, TabLine(<< >>), TabLine(<< "[]" >>),
      EnvLine(Graph(Envelope)),
      EnvLine(Graph(WithRank(WithPayload(Envelope, MalformedDigest), Some(1)))) }
    \cup { EnvLine(Graph(WithPayload(Envelope, h))) :
              h \in { MalformedDigest, Md5(<< >>), Md5(<< "[]" >>) } }

Init == InitWith(RankLines, { DefaultConfig })
Spec == Init /\ [][Next]_vars

InitPayload == InitWith(PayloadLines, { DefaultConfig })
SpecPayload == InitPayload /\ [][Next]_vars

\* outputs: files of one compile id and of none, a dumped source file, a
\* link, a cache artifact, a metrics page, and a record with three outputs
OutputLines ==
    { EnvLine(Graph(WithId(Envelope, C000))),
      EnvLine(Graph(Envelope)),
      EnvLine(DumpFile(Envelope, "a")),
      EnvLine(LinkTo(WithId(Envelope, C000))),
      EnvLine(Artifact(WithId(Envelope, C100), "fx_graph_cache_hit", "string")),
      EnvLine(CompilationMetrics(WithId(Envelope, C000), Metrics)),
      EnvLine(Graph(LinkTo(DumpFile(WithId(Envelope, C000), "a")))) }

InitOutputs == InitWith(OutputLines, { DefaultConfig })
SpecOutputs == InitOutputs /\ [][Next]_vars

\* metrics: two attempts of one compilation, started and measured, a failed
\* attempt, a compile id without metrics, metrics without a compile id
MetricsLines ==
    { EnvLine(DynamoStart(WithId(Envelope, C000), << UserFrame >>)),
      EnvLine(DynamoStart(WithId(Envelope, C001), << UserFrame >>)),
      EnvLine(CompilationMetrics(WithId(Envelope, C000), Metrics)),
      EnvLine(CompilationMetrics(WithId(Envelope, C001), Metrics)),
      EnvLine(CompilationMetrics(WithId(Envelope, C001),
                  [Metrics EXCEPT !.fail_type = Some("Unsupported"),
                                  !.fail_reason = Some("reason")])),
      EnvLine(Graph(WithId(Envelope, C100))),
      EnvLine(CompilationMetrics(Envelope, Metrics)) }

InitMetrics == InitWith(MetricsLines, { DefaultConfig })
SpecMetrics == InitMetrics /\ [][Next]_vars

\* interning: a stack that ends in the frames of convert_frame.py, the
\* records that intern its file names, the metrics page that shows it
InternLines ==
    { EnvLine(DynamoStart(WithId(Envelope, C000), << UserFrame >> \o ConvertFrames)),
      EnvLine(Str(Envelope, << ConvertFramePy >>, 0)),
      EnvLine(Str(Envelope, UserPy, 1)),
      EnvLine(Str(Envelope, UserPy, 0)),
      EnvLine(CompilationMetrics(WithId(Envelope, C000), Metrics)) }

InitIntern == InitWith(InternLines, { DefaultConfig })
SpecIntern == InitIntern /\ [][Next]_vars

\* malformed records, with both strict switches off
FatalLines ==
    { NoGlogLine, NoJsonLine, TabLine(<< "[]" >>), TabLine(<< "x" >>),
      EnvLine(ChromiumEvent(Envelope)),
      EnvLine(ChromiumEvent(WithPayload(Envelope, Md5(<< "[]" >>)))),
      EnvLine(CompilationMetrics(WithId(Envelope, C000),
                  [Metrics EXCEPT !.fail_type = Some("Unsupported")])),
      EnvLine(Artifact(WithPayload(WithId(Envelope, C000), Md5(<< "[]" >>)),
                       "name", "json")) }

InitFatal == InitWith(FatalLines, { DefaultConfig })
SpecFatal == InitFatal /\ [][Next]_vars

\* strict mode: one line for every counter, a clean record, a record that
\* ends the call, under every setting of the two strict switches
StrictLines ==
    { NoGlogLine, NoJsonLine,
      EnvLine(Graph(WithId(Envelope, C000))),
      EnvLine(Graph(WithPayload(Envelope, MalformedDigest))),
      EnvLine(Graph(WithRank(WithId(Envelope, C000), Some(1)))),
      EnvLine(Guards(WithId(Envelope, C000))),
      EnvLine(Artifact(WithId(Envelope, C000), "name", "base64")),
      EnvLine([Graph(WithId(Envelope, C000)) EXCEPT !.other = { "new_field" }]),
      EnvLine(ChromiumEvent(WithId(Envelope, C000))) }

StrictConfigs ==
    { [DefaultConfig EXCEPT !.strict = s, !.strict_compile_id = c] :
         s \in BOOLEAN, c \in BOOLEAN }

InitStrict == InitWithin(StrictLines, StrictConfigs, MaxStrictLines)
SpecStrict == InitStrict /\ [][Next]_vars

(***************************************************************************)
(* Properties.  A step of the loop is described from the state before it:  *)
(* CurLine is the record line the next iteration reads.                    *)
(***************************************************************************)
CurIdx == next_line(file, pos)
AtRecord == pc = "ingest" /\ CurIdx <= Len(file)
CurLine == file[CurIdx]
AtEnvelope == AtRecord /\ re_glog_captures(CurLine) /\ IsSome(from_str_Envelope(CurLine))
CurEnv == from_str_Envelope(CurLine)[1]

\* the step admitted the envelope: it is counted in ok
AdmittedStep == stats'.ok = stats.ok + 1
\* the step dispatched nothing: no count in ok, no directory entry, no output,
\* no analyzer and no post-step ran
NotDispatchedStep ==
    /\ stats'.ok = stats.ok
    /\ UNCHANGED << directory, output, output_count, metrics_index, stack_index,
                    stack_trie, unknown_stack_trie, failures, chromium_events >>
\* the step dropped the envelope at the rank gate
RankDroppedStep ==
    /\ stats'.other_rank = stats.other_rank + 1
    /\ NotDispatchedStep
    /\ UNCHANGED INTERN_TABLE

ContinuationLines(f, i) ==
    { j \in (i + 1)..Len(f) :
         /\ starts_with_tab(f[j])
         /\ \A k \in (i + 1)..j : starts_with_tab(f[k]) \/ is_empty(f[k]) }

RECURSIVE JoinLines(_, _)
JoinLines(f, js) ==
    IF js = {} THEN << >>
    ELSE LET j == CHOOSE x \in js : \A y \in js : x <= y
             rest == js \ { j } IN
         IF rest = {} THEN f[j].s ELSE f[j].s \o << NL >> \o JoinLines(f, rest)

ExpectedPayload(f, i) == JoinLines(f, ContinuationLines(f, i))

\* the first record line after record i and its continuation lines
NextRecord(f, i) ==
    LET after == { j \in (i + 1)..Len(f) :
                      ~is_empty(f[j]) /\ j \notin ContinuationLines(f, i) }
    IN IF after = {} THEN Len(f) + 1 ELSE CHOOSE x \in after : \A y \in after : x <= y

\* the payload the analyzers of this step were given: the contents of the
\* graph file the step emitted
LastOutputIsGraphOf(payload) ==
    /\ Len(output') = Len(output) + 1
    /\ output'[Len(output')].path.stem = << "dynamo_output_graph" >>
    /\ output'[Len(output')].contents = PlainText(payload)

\* C2.  For an envelope that declares has_payload the payload is the longest
\* run of following non-blank lines that begin with a tab, tabs removed,
\* joined by single newlines with none at the end; the run is consumed with
\* the envelope, so the next record read is the line after the run.  For an
\* envelope without has_payload the payload is empty and nothing is consumed.
C2_PayloadReconstruction ==
    [][ (AtEnvelope /\ ~IsSome(CurEnv.str)) =>
           IF IsSome(CurEnv.has_payload)
           THEN /\ next_line(file, pos') = NextRecord(file, CurIdx)
                /\ (AdmittedStep /\ Has(CurEnv, "dynamo_output_graph")) =>
                       LastOutputIsGraphOf(ExpectedPayload(file, CurIdx))
                /\ stats'.fail_glog = stats.fail_glog
                /\ stats'.fail_json = stats.fail_json
           ELSE /\ pos' = CurIdx + 1
                /\ (AdmittedStep /\ Has(CurEnv, "dynamo_output_graph")) =>
                       LastOutputIsGraphOf(<< >>)
      ]_vars

\* a graph file whose payload was joined from two continuation lines
C2_Witness ==
    \E i \in 1..Len(output) :
        /\ output[i].path.stem = << "dynamo_output_graph" >>
        /\ output[i].contents.ctx = << "[]", NL, "[]" >>

\* the declared digest of the envelope is malformed or is not the MD5 of
\* its payload as stated from the file
BadDigest(f, i, e) ==
    \/ ~base16_decode_ok(e.has_payload[1])
    \/ e.has_payload[1] # Md5(ExpectedPayload(f, i))

\* the rank gate, as it stands before the step, lets the rank through
GateLetsThrough(rank) == ~IsSome(expected_rank) \/ expected_rank[1] = rank

\* C3.  The digest is diagnostic, not blocking: a malformed or mismatching
\* has_payload increments fail_payload_md5 exactly once for its envelope, and
\* the envelope goes on to the rank gate as any other: when the gate lets it
\* through it is admitted and its analyzer's output is appended to the
\* outputs.  A matching digest, or none, leaves fail_payload_md5 unchanged.
C3_DigestIsDiagnostic ==
    [][ (AtEnvelope /\ ~IsSome(CurEnv.str)) =>
           IF IsSome(CurEnv.has_payload) /\ BadDigest(file, CurIdx, CurEnv)
           THEN /\ stats'.fail_payload_md5 = stats.fail_payload_md5 + 1
                /\ GateLetsThrough(CurEnv.rank) =>
                      /\ AdmittedStep
                      /\ Has(CurEnv, "dynamo_output_graph") =>
                             LastOutputIsGraphOf(ExpectedPayload(file, CurIdx))
           ELSE stats'.fail_payload_md5 = stats.fail_payload_md5
      ]_vars

\* parse_path returned the outputs of a log whose two records both failed
\* the digest check, one with a malformed digest and one with a mismatch
C3_Witness ==
    /\ pc = "done"
    /\ result.kind = "Ok"
    /\ stats.fail_payload_md5 = 2
    /\ stats.ok = 2
    /\ Len(result.outputs) = 6
    /\ \E i \in 1..Len(file) :
          /\ IsSome(file[i].e)
          /\ file[i].e[1].has_payload = Some(MalformedDigest)
    /\ \E i \in 1..Len(file) :
          /\ IsSome(file[i].e)
          /\ IsSome(file[i].e[1].has_payload)
          /\ base16_decode_ok(file[i].e[1].has_payload[1])

\* C4 as stated.  With both strict switches off, parse_path on a regular
\* file reads every line and returns the outputs: no record makes it return
\* an error or abort.
C4_NoErrorIsFatal ==
    (pc = "done" /\ is_file /\ ~config.strict /\ ~config.strict_compile_id) =>
        /\ result.kind = "Ok"
        /\ next_line(file, pos) > Len(file)

(***************************************************************************)
(* The paths parse_path returns.                                           *)
(***************************************************************************)
Returned == pc = "done" /\ result.kind = "Ok"
ReturnedPaths == [i \in 1..Len(result.outputs) |-> result.outputs[i].path]
IsDumpFilePath(path) == path.dir = DumpFileDir /\ path.seq = None

AllEntries == Concat([i \in 1..Len(directory) |-> directory[i].val])
IsFileEntry(entry) == entry.url.dir.kind \in { "compile", "unknown" }

SequenceNumbers ==
    \* one counter from 0, one number per entry: the numbers are 0..count-1
    /\ Len(AllEntries) = output_count
    /\ { AllEntries[i].number : i \in 1..Len(AllEntries) } = 0..(output_count - 1)
    \* within a bucket the numbers increase in the order of production
    /\ \A b \in 1..Len(directory) :
          \A i, j \in 1..Len(directory[b].val) :
              i < j => directory[b].val[i].number < directory[b].val[j].number
    \* a File entry's url is the emitted path and carries the entry's number
    /\ \A i \in 1..Len(AllEntries) :
          IsFileEntry(AllEntries[i]) =>
              /\ AllEntries[i].url.seq = Some(AllEntries[i].number)
              /\ \E k \in 1..Len(output) : output[k].path = AllEntries[i].url
    /\ \A k \in 1..Len(output) :
          IsSome(output[k].path.seq) =>
              \E i \in 1..Len(AllEntries) :
                  /\ AllEntries[i].url = output[k].path
                  /\ AllEntries[i].number = output[k].path.seq[1]

\* the entries a step added to the buckets take the numbers from the old
\* value of the counter up to the new one
NewEntriesNumbered ==
    \A b \in 1..Len(directory') :
        LET old == IF MapHas(directory, directory'[b].key)
                   THEN Len(MapGet(directory, directory'[b].key)) ELSE 0 IN
        \A i \in (old + 1)..Len(directory'[b].val) :
            /\ directory'[b].val[i].number >= output_count
            /\ directory'[b].val[i].number < output_count'

\* C6.  One counter starts at 0; each File, GlobalFile or Link output takes
\* its current value and advances it by one, so the numbers of all OutputFile
\* entries are pairwise distinct and increase in the order of production; the
\* emitted path of a File output carries the number of its OutputFile entry.
C6_SequenceNumbers ==
    [][ /\ SequenceNumbers
        /\ SequenceNumbers'
        /\ AtRecord => NewEntriesNumbered
        /\ pc' = "start" => output_count' = 0
      ]_vars

\* a File, a GlobalFile and a Link have taken the numbers 0, 1 and 2, and a
\* File of another bucket the number 3
C6_Witness ==
    /\ output_count = 4
    /\ Len(directory) = 2
    /\ \E i, j, k \in 1..Len(directory[1].val) :
          /\ directory[1].val[i].url.dir.kind = "compile"
          /\ directory[1].val[j].url.dir.kind = "dump_file"
          /\ directory[1].val[k].url.dir.kind = "text"
    /\ \E i \in 1..Len(directory[2].val) : directory[2].val[i].number = 3

(***************************************************************************)
(* The index page and the links of its stack trie.                         *)
(***************************************************************************)
IndexPage ==
    LET outs == result.outputs IN
    outs[CHOOSE i \in 1..Len(outs) :
            outs[i].path = Path(TopDir, << "index" >>, "html")].contents.ctx

\* the compile id a link of the trie names
LinkCompileId(link) ==
    CompileId(link.cid[1], link.cid[2], IF Len(link.cid) = 3 THEN link.cid[3] ELSE 0)

\* the class of the metrics stored under a key of the index
ClassOfKey(key) == ok_class(Some(metrics_index), key)

\* C7 as stated.  Every terminal (f, c, a) of the known stack trie is
\* rendered with the class of the metrics stored under (f, c, 0); a terminal
\* with a # 0 whose compilation has stored metrics is not status-missing.
C7_ColoringUsesZeroAttemptKey ==
    Returned =>
        \A link \in Range(rendered_links(IndexPage.stack_trie_html)) :
            link.known =>
                link.class = ClassOfKey(zero_attempt(Some(LinkCompileId(link))))

\* the compilation_metrics records of the file stored under a key, in order
SeenMetrics(key) ==
    LET recs == SelectSeq(file, LAMBDA l :
                    /\ re_glog_captures(l)
                    /\ IsSome(from_str_Envelope(l))
                    /\ Has(from_str_Envelope(l)[1], "compilation_metrics")
                    /\ zero_attempt(from_str_Envelope(l)[1].compile_id) = key)
    IN [i \in 1..Len(recs) |-> recs[i].e[1].md["compilation_metrics"]]

\* C8.  Every admitted compilation_metrics record with compile id (f, c, a)
\* is appended, in input order, to the list stored under (f, c, 0); no other
\* step touches the index; when ingestion ends, for every compile id of the
\* directory, the key with the attempt zeroed is in the index iff a
\* compilation_metrics record of that compilation was admitted.
C8_MetricsIndex ==
    [][ /\ (AtEnvelope /\ Has(CurEnv, "compilation_metrics")
              /\ AdmittedStep /\ pc' = "ingest") =>
              LET key == zero_attempt(CurEnv.compile_id)
                  old == IF MapHas(metrics_index, key)
                         THEN MapGet(metrics_index, key) ELSE << >>
              IN /\ MapHas(metrics_index', key)
                 /\ MapGet(metrics_index', key)
                        = Append(old, CurEnv.md["compilation_metrics"])
                 /\ \A i \in 1..Len(metrics_index) :
                        metrics_index[i].key # key =>
                            metrics_index'[i] = metrics_index[i]
                 /\ \A i \in 1..Len(metrics_index') :
                        /\ metrics_index'[i].key = zero_attempt(metrics_index'[i].key)
                        /\ metrics_index'[i].key # key => i <= Len(metrics_index)
        /\ (AtRecord /\ ~(AtEnvelope /\ Has(CurEnv, "compilation_metrics")
                            /\ AdmittedStep)) =>
              metrics_index' = metrics_index
        /\ (pc = "ingest" /\ ~AtRecord) =>
              /\ \A i \in 1..Len(directory) :
                    MapHas(metrics_index, zero_attempt(directory[i].key))
                        <=> SeenMetrics(zero_attempt(directory[i].key)) # << >>
              /\ \A i \in 1..Len(metrics_index) :
                    metrics_index[i].val = SeenMetrics(metrics_index[i].key)
      ]_vars

\* the metrics of attempt 0 and of attempt 1 share the entry of (0, 0, 0),
\* and the directory holds the compile id (0, 0, 1)
C8_Witness ==
    /\ MapHas(directory, C001)
    /\ MapHas(metrics_index, C000)
    /\ Len(MapGet(metrics_index, C000)) = 2
    /\ ~MapHas(metrics_index, C001)

\* C9 as stated.  Two successive runs of parse_path in one process, on the
\* same input with the same configuration, return the same result.
C9_Deterministic ==
    (run = 2 /\ pc = "done") => result = first_result

\* the sum of the six counters strict mode tests, from the claim
SixCounters ==
    stats.fail_glog + stats.fail_json + stats.fail_payload_md5 + stats.other_rank
        + stats.fail_dynamo_guards_json + stats.fail_parser
StrictError == ErrResult("Something went wrong")

\* C10.  Strict mode is a check after ingestion: the step that ends
\* ingestion returns the strict error instead of the outputs iff strict is
\* set and one of the six counters is positive; with strict_compile_id off
\* it then returns an error at all iff that holds; the unknown counter does
\* not enter; no step before the end of the input returns the strict error.
C10_StrictMode ==
    [][ /\ (pc = "ingest" /\ ~AtRecord) =>
              /\ result' = StrictError <=> (config.strict /\ SixCounters > 0)
              /\ ~config.strict_compile_id =>
                    (result'.kind = "Err" <=> (config.strict /\ SixCounters > 0))
              /\ (~config.strict /\ ~config.strict_compile_id) =>
                    result' = OkResult(output')
        /\ AtRecord => result' # StrictError
      ]_vars

\* strict mode returned its error after the whole input was read: a record
\* was admitted, an unrecognized field was counted, a counter of the six is
\* positive
C10_Witness ==
    /\ pc = "done"
    /\ config.strict
    /\ result = StrictError
    /\ SixCounters > 0
    /\ stats.ok > 0
    /\ stats.unknown > 0
    /\ next_line(file, pos) > Len(file)

(***************************************************************************)
(* Records without a compile id, under the strict switches.                *)
(***************************************************************************)
WithStack(e, stack) == [e EXCEPT !.stack = Some(stack)]

\* records with and without a compile id, with and without outputs
CompileIdLines ==
    { TabLine(<< "[]" >>),
      EnvLine(ChromiumEvent(WithPayload(Envelope, Md5(<< "[]" >>)))),
      EnvLine(WithStack(Envelope, << UserFrame >>)),
      EnvLine(Graph(Envelope)),
      EnvLine(Graph(WithId(Envelope, C000))),
      EnvLine(Graph(WithRank(Envelope, Some(1)))),
      EnvLine(Str(Envelope, UserPy, 1)) }

InitCompileId == InitWithin(CompileIdLines, StrictConfigs, MaxStrictLines)
SpecCompileId == InitCompileId /\ [][Next]_vars

\* the step that ends ingestion, with the strict check passing
EndsIngestion == pc = "ingest" /\ ~AtRecord
StrictCheckPasses == ~(config.strict /\ SixCounters > 0)
CompileIdError == ErrResult("Some log entries did not have compile id")

\* C11 as stated.  With strict_compile_id set and the strict check passing,
\* parse_path returns an error iff the None bucket holds an output; an
\* admitted envelope without compile id and without output does not count.
C11_ErrorIffNoneBucketNonEmpty ==
    [][ (EndsIngestion /\ config.strict_compile_id /\ StrictCheckPasses) =>
           (result'.kind = "Err" <=>
               (MapHas(directory, None) /\ MapGet(directory, None) # << >>))
      ]_vars

\* C11, amended.  With strict_compile_id set and the strict check passing,
\* parse_path returns an error iff the directory has the None key, and it
\* has that key iff some envelope without a compile id was admitted, whether
\* or not an output was attributed to it; with the switch off no such error.
C11_ErrorIffNoneKey ==
    [][ /\ (EndsIngestion /\ StrictCheckPasses) =>
              /\ result' = CompileIdError
                    <=> (config.strict_compile_id /\ MapHas(directory, None))
              /\ result'.kind = "Err" <=> result' = CompileIdError
        /\ (AtEnvelope /\ AdmittedStep) =>
              /\ MapHas(directory', CurEnv.compile_id)
              /\ MapHas(directory', None)
                    <=> (MapHas(directory, None) \/ CurEnv.compile_id = None)
        /\ (AtRecord /\ ~(AtEnvelope /\ AdmittedStep)) =>
              directory' = directory
      ]_vars

\* the compile-id error for a log whose None bucket exists and is empty
C11_Witness ==
    /\ pc = "done"
    /\ result = CompileIdError
    /\ MapHas(directory, None)
    /\ MapGet(directory, None) = << >>
    /\ stats.ok > 0

(***************************************************************************)
(* The order of the directory.                                             *)
(***************************************************************************)
\* compile ids that differ in each field and none, outputs and no outputs,
\* an interning record
DirectoryLines ==
    { EnvLine(Graph(WithId(Envelope, C000))),
      EnvLine(Graph(WithId(Envelope, C001))),
      EnvLine(Graph(WithId(Envelope, C100))),
      EnvLine(Graph(Envelope)),
      EnvLine(LinkTo(WithId(Envelope, C001))),
      EnvLine(WithStack(Envelope, << UserFrame >>)),
      EnvLine(Str(Envelope, UserPy, 1)) }

InitDirectory == InitWith(DirectoryLines, { DefaultConfig })
SpecDirectory == InitDirectory /\ [][Next]_vars

Keys(m) == [i \in 1..Len(m) |-> m[i].key]

\* the lines of the file that are envelopes other than interning records
IsRecordEnvelope(l) ==
    /\ re_glog_captures(l)
    /\ IsSome(from_str_Envelope(l))
    /\ ~IsSome(from_str_Envelope(l)[1].str)
\* the first line that carries the compile id
FirstSeen(cid) ==
    CHOOSE i \in 1..Len(file) :
        /\ IsRecordEnvelope(file[i]) /\ file[i].e[1].compile_id = cid
        /\ \A j \in 1..(i - 1) :
              ~(IsRecordEnvelope(file[j]) /\ file[j].e[1].compile_id = cid)

\* the key of a directory entry as index.html shows it
RenderedKey(key) == IF IsSome(key) THEN Some(CompileId_Display(key[1])) ELSE None

\* C12.  The directory entries of index.html are in the order in which each
\* distinct compile id (all three fields; none is one key) first occurs
\* among the admitted envelopes; a later envelope with a compile id already
\* seen appends to its bucket and moves nothing.
C12_DirectoryOrder ==
    [][ /\ (AtEnvelope /\ AdmittedStep) =>
              IF MapHas(directory, CurEnv.compile_id)
              THEN /\ Keys(directory') = Keys(directory)
                   /\ \A i \in 1..Len(directory) :
                         IF directory[i].key = CurEnv.compile_id
                         THEN /\ Len(directory'[i].val) >= Len(directory[i].val)
                              /\ SubSeq(directory'[i].val, 1, Len(directory[i].val))
                                    = directory[i].val
                         ELSE directory'[i] = directory[i]
              ELSE /\ Keys(directory') = Append(Keys(directory), CurEnv.compile_id)
                   /\ \A i \in 1..Len(directory) : directory'[i] = directory[i]
        /\ (AtRecord /\ ~(AtEnvelope /\ AdmittedStep)) => directory' = directory
        /\ (EndsIngestion /\ result'.kind = "Ok") =>
              LET shown == result'.outputs[Len(result'.outputs) - 1].contents.ctx.directory
              IN /\ Len(shown) = Len(directory)
                 /\ \A i \in 1..Len(shown) :
                       /\ shown[i].key = RenderedKey(directory[i].key)
                       /\ shown[i].val = directory[i].val
                 /\ \A i \in 1..Len(file) :
                       (IsRecordEnvelope(file[i]) /\ expected_rank = Some(None)) =>
                           MapHas(directory, file[i].e[1].compile_id)
                 /\ \A i, j \in 1..Len(directory) :
                       i < j => FirstSeen(directory[i].key) < FirstSeen(directory[j].key)
      ]_vars

\* an index page with two entries, the first compile id seen again on the
\* third line, after the second compile id
C12_Witness ==
    /\ Returned
    /\ Len(IndexPage.directory) = 2
    /\ Len(file) = 3
    /\ \A i \in 1..3 : IsRecordEnvelope(file[i])
    /\ file[1].e[1].compile_id = C001
    /\ file[2].e[1].compile_id = C000
    /\ file[3].e[1].compile_id = C001
    /\ IndexPage.directory[1].key = Some(CompileId_Display(C001[1]))
    /\ Len(IndexPage.directory[1].val) = 2

\* the paths of the four terminal outputs, in the order of the claim
TerminalPaths ==
    << Path(TopDir, << "failures_and_restarts" >>, "html"),
       Path(TopDir, << "chromium_events" >>, "json"),
       Path(TopDir, << "index" >>, "html"),
       Path(TopDir, << "raw" >>, "log") >>

\* C13.  On every successful return, the empty file included, the last four
\* entries of the returned list are failures_and_restarts.html,
\* chromium_events.json, index.html, raw.log, in this order and each exactly
\* once; the per-record artifacts precede them in the order the records were
\* read, the list only ever growing at its end during ingestion.
C13_TerminalOutputs ==
    [][ /\ (EndsIngestion /\ result'.kind = "Ok") =>
              LET outs == result'.outputs
                  n == Len(outs) IN
              /\ n = Len(output) + 4
              /\ SubSeq(outs, 1, Len(output)) = output
              /\ \A k \in 1..4 : outs[n - 4 + k].path = TerminalPaths[k]
              /\ \A i \in 1..(n - 4) : outs[i].path \notin Range(TerminalPaths)
              /\ outs[n].contents.ctx = file
        /\ AtRecord =>
              /\ Len(output') >= Len(output)
              /\ SubSeq(output', 1, Len(output)) = output
              /\ \A i \in (Len(output) + 1)..Len(output') :
                    output'[i].path \notin Range(TerminalPaths)
      ]_vars

\* a returned list with three per-record artifacts before the four
C13_Witness ==
    /\ Returned
    /\ Len(result.outputs) = 7
    /\ \A k \in 1..4 : result.outputs[3 + k].path = TerminalPaths[k]

(***************************************************************************)
(* The trimmer of dynamo_start stacks.                                     *)
(***************************************************************************)
CallFrames == << Frame(0, "__call__"), Frame(0, "__call__"), Frame(0, "__call__") >>

\* stacks that end in the first triple, in the second, in one after the
\* other, in part of one, that are a triple; records that intern file id 0
TrimmerLines ==
    { EnvLine(Str(Envelope, << ConvertFramePy >>, 0)),
      EnvLine(Str(Envelope, << "fbcode/", LinkTree, ConvertFramePy >>, 0)) }
    \cup { EnvLine(DynamoStart(WithId(Envelope, C000), stack)) :
              stack \in { << UserFrame >> \o ConvertFrames,
                          << UserFrame >> \o CallFrames,
                          CallFrames \o ConvertFrames,
                          ConvertFrames \o CallFrames,
                          ConvertFrames,
                          SubSeq(ConvertFrames, 2, 3) } }

InitTrimmer == InitWith(TrimmerLines, { DefaultConfig })
SpecTrimmer == InitTrimmer /\ [][Next]_vars

\* the triples of (file name, function name) the trimmer knows
KnownTriples ==
    { << << ConvertFramePy, "catch_errors" >>, << ConvertFramePy, "_convert_frame" >>,
         << ConvertFramePy, "_convert_frame_assert" >> >>,
      << << ConvertFramePy, "__call__" >>, << ConvertFramePy, "__call__" >>,
         << ConvertFramePy, "__call__" >> >> }

\* the last three frames of the stack are the triple, file names resolved
\* with the intern table and simplified
TailIs(table, stack, triple) ==
    /\ Len(stack) >= 3
    /\ \A i \in 1..3 :
          LET frame == stack[Len(stack) - 3 + i] IN
          /\ simplify_filename(unintern_str(table, frame.filename)) = << triple[i][1] >>
          /\ frame.name = triple[i][2]

Trimmed(table, stack) ==
    IF \E triple \in KnownTriples : TailIs(table, stack, triple)
    THEN SubSeq(stack, 1, Len(stack) - 3)
    ELSE stack

\* C14.  A dynamo_start stack whose last three frames match one of the two
\* triples, by simplified resolved file name and function name, is inserted
\* into the known stack trie (and stored in the stack index) with exactly
\* three fewer frames; any other stack, and a stack of fewer than three
\* frames, is inserted unchanged; one triple at most is removed.
C14_Trimmer ==
    [][ (AtEnvelope /\ AdmittedStep /\ Has(CurEnv, "dynamo_start")) =>
           LET stack == CurEnv.md["dynamo_start"].stack[1]
               kept == Trimmed(INTERN_TABLE, stack) IN
           /\ stack_trie' = StackTrieNode_insert(stack_trie, kept, CurEnv.compile_id)
           /\ stack_index'[CurEnv.compile_id] = kept
           /\ Len(kept) \in { Len(stack), Len(stack) - 3 }
      ]_vars

\* the stack that ends in both triples, one after the other, was inserted
\* with the last triple removed and the one before it kept
C14_Witness ==
    \E i \in 1..Len(stack_trie) :
        /\ stack_trie[i].path = CallFrames
        /\ stack_trie[i].terminal # << >>

(***************************************************************************)
(* The classes of the stack-trie links.                                    *)
(***************************************************************************)
\* one compilation started, with metrics of every kind; a compilation
\* started without metrics
ColoringLines ==
    { EnvLine(DynamoStart(WithId(Envelope, C000), << UserFrame >>)),
      EnvLine(DynamoStart(WithId(Envelope, C100), << UserFrame >>)) }
    \cup { EnvLine(CompilationMetrics(WithId(Envelope, C000), m)) :
              m \in { Metrics,
                      [Metrics EXCEPT !.fail_type = Some("Unsupported"),
                                      !.fail_reason = Some("reason")],
                      [Metrics EXCEPT !.graph_op_count = Some(0)],
                      [Metrics EXCEPT !.restart_reasons = Some(<< "graph break" >>)],
                      [Metrics EXCEPT !.restart_reasons = None] } }

InitColoring == InitWith(ColoringLines, { DefaultConfig })
SpecColoring == InitColoring /\ [][Next]_vars

\* the class the claim gives the metrics stored under a key
ClaimedClass(key) ==
    IF ~MapHas(metrics_index, key) THEN "status-missing"
    ELSE LET m == MapGet(metrics_index, key) IN
         IF \E i \in 1..Len(m) : IsSome(m[i].fail_type) THEN "status-error"
         ELSE IF \E i \in 1..Len(m) : m[i].graph_op_count = Some(0) THEN "status-empty"
         ELSE IF \E i \in 1..Len(m) :
                    /\ IsSome(m[i].restart_reasons)
                    /\ m[i].restart_reasons[1] # << >>
              THEN "status-break"
         ELSE "status-ok"

\* C15 as stated.  The class of a rendered terminal is the first of: no
\* entry in the index, status-missing; a fail_type, status-error; a
\* graph_op_count of 0, status-empty; a non-empty restart_reasons,
\* status-break; else status-ok.  Attempts without fail_type, with positive
\* graph_op_count and an absent or empty restart_reasons give status-ok.
C15_ColoringFunction ==
    Returned =>
        \A link \in Range(rendered_links(IndexPage.stack_trie_html)) :
            (link.known /\ Len(link.cid) = 2) =>
                link.class = ClaimedClass(Some(LinkCompileId(link)))

(***************************************************************************)
(* The layout of the per-record files.                                     *)
(***************************************************************************)
\* blank lines, files with a compile id (two attempts) and without, a
\* metrics page, a dumped source file
LayoutLines ==
    { BlankLine,
      EnvLine(Graph(Envelope)),
      EnvLine(Graph(WithId(Envelope, C000))),
      EnvLine(Graph(WithId(Envelope, C001))),
      EnvLine(CompilationMetrics(WithId(Envelope, C001), Metrics)),
      EnvLine(Graph(DumpFile(WithId(Envelope, C100), "a"))) }

InitLayout == InitWith(LayoutLines, { DefaultConfig })
SpecLayout == InitLayout /\ [][Next]_vars

\* the directory part of the claim's paths: f_c_a, or unknown_<lineno>
ClaimedDir(compile_id, lineno) ==
    IF compile_id = None THEN [kind |-> "unknown", id |-> << lineno >>]
    ELSE [kind |-> "compile",
          id |-> << compile_id[1].frame_id, compile_id[1].frame_compile_id,
                    compile_id[1].attempt >>]

\* the entries the step appended to the bucket of a key
NewInBucket(key) ==
    LET old == IF MapHas(directory, key) THEN Len(MapGet(directory, key)) ELSE 0
        now == MapGet(directory', key)
    IN SubSeq(now, old + 1, Len(now))

\* C16.  Every File output of an admitted envelope with compile id (f, c, a)
\* has the path f_c_a/<kind>_<seq>.<ext> and is listed in the bucket of that
\* compile id, attempt included; every File output of an envelope without a
\* compile id is under unknown_<lineno>/, lineno the 1-based number of the
\* envelope's line in the file, blank lines counted, and is listed in the
\* None bucket; no other bucket changes.
C16_OutputLayout ==
    [][ (AtEnvelope /\ AdmittedStep) =>
           /\ \A k \in (Len(output) + 1)..Len(output') :
                 IsSome(output'[k].path.seq) =>
                     /\ output'[k].path.dir = ClaimedDir(CurEnv.compile_id, CurIdx)
                     /\ \E i \in 1..Len(NewInBucket(CurEnv.compile_id)) :
                           LET entry == NewInBucket(CurEnv.compile_id)[i] IN
                           /\ entry.url = output'[k].path
                           /\ output'[k].path.seq = Some(entry.number)
           /\ \A b \in 1..Len(directory) :
                 directory[b].key # CurEnv.compile_id => directory'[b] = directory[b]
           /\ Has(CurEnv, "dynamo_output_graph") =>
                 \E k \in (Len(output) + 1)..Len(output') :
                     /\ output'[k].path.stem = << "dynamo_output_graph" >>
                     /\ output'[k].path.ext = "txt"
                     /\ IsSome(output'[k].path.seq)
      ]_vars

\* a file under unknown_2/ for an envelope on the second line, after a
\* blank line, and a file under 0_0_1/ listed in the bucket of (0, 0, 1)
C16_Witness ==
    /\ Len(file) = 3
    /\ file[1] = BlankLine
    /\ \E k \in 1..Len(output) :
          output[k].path.dir = [kind |-> "unknown", id |-> << 2 >>]
    /\ MapHas(directory, C001)
    /\ \E i \in 1..Len(MapGet(directory, C001)) :
          MapGet(directory, C001)[i].url.dir = [kind |-> "compile", id |-> << 0, 0, 1 >>]

(***************************************************************************)
(* Resolution of interned file names in rendered frames.                   *)
(***************************************************************************)
\* a stack whose file name is interned by a record that may come before or
\* after it, the metrics page that shows the stack, a stack whose file name
\* no record interns
ResolveLines ==
    { EnvLine(DynamoStart(WithId(Envelope, C000), << UserFrame >>)),
      EnvLine(DynamoStart(Envelope, << Frame(2, "g") >>)),
      EnvLine(Str(Envelope, UserPy, 1)),
      EnvLine(CompilationMetrics(WithId(Envelope, C000), Metrics)),
      EnvLine(Graph(WithId(Envelope, C000))) }

InitResolve == InitWith(ResolveLines, { DefaultConfig })
SpecResolve == InitResolve /\ [][Next]_vars

\* every frame text of a rendered trie, nested items included
RECURSIVE rendered_frames(_)
rendered_frames(html) ==
    Concat([i \in 1..Len(html) |-> << html[i].frame >> \o rendered_frames(html[i].sub)])

\* the frames the records of the file carry
FileFrames ==
    UNION { Range(file[i].e[1].md["dynamo_start"].stack[1]) :
              i \in { j \in 1..Len(file) :
                        /\ IsRecordEnvelope(file[j])
                        /\ Has(file[j].e[1], "dynamo_start") } }

\* the ids some str record of the file interns
FileInterned ==
    { file[i].e[1].str[1].i :
        i \in { j \in 1..Len(file) :
                  /\ re_glog_captures(file[j])
                  /\ IsSome(from_str_Envelope(file[j]))
                  /\ IsSome(file[j].e[1].str) } }

\* what the claim says a frame shows: the string interned anywhere in the
\* log for its file name id, "(unknown)" for an id no record interns
ClaimedFrame(frame) ==
    [filename |-> IF frame.filename \in FileInterned
                  THEN simplify_filename(INTERN_TABLE[frame.filename])
                  ELSE Unknown,
     line |-> frame.line, name |-> frame.name]

MetricsPages ==
    { k \in 1..Len(result.outputs) :
        result.outputs[k].path.stem = << "compilation_metrics" >> }

\* C17 as stated.  In the first run of the process, every frame rendered
\* into the two stack tries of index.html or into the stack of a
\* compilation-metrics page shows the string a str record anywhere in the
\* file interns for its file name id, also a later one, and "(unknown)" for
\* an id no record interns.
C17_RenderTimeResolution ==
    (run = 1 /\ Returned) =>
        LET claimed == { ClaimedFrame(f) : f \in FileFrames } IN
        /\ Range(rendered_frames(IndexPage.stack_trie_html)) \subseteq claimed
        /\ Range(rendered_frames(IndexPage.unknown_stack_trie_html)) \subseteq claimed
        /\ \A k \in MetricsPages :
              Range(rendered_frames(result.outputs[k].contents.ctx.stack_html))
                  \subseteq claimed

ErrorLines ==
    { EnvLine(LinkTo(Guards(Graph(WithId(Envelope, C000))))),
      EnvLine(DynamoStart(Artifact(Graph(WithId(Envelope, C000)), "name", "base64"),
                          << UserFrame >>)),
      EnvLine(CompilationMetrics(
                  Guards(Artifact(WithId(Envelope, C000), "name", "base64")), Metrics)),
      EnvLine(Guards(WithPayload(WithId(Envelope, C000), Md5(<< "[]" >>)))),
      TabLine(<< "[]" >>),
      EnvLine(Graph(WithId(Envelope, C000))) }

InitError == InitWith(ErrorLines, { DefaultConfig })
SpecError == InitError /\ [][Next]_vars

CurPayload == envelope_payload(file, CurIdx, CurEnv).payload
GuardsFail == Has(CurEnv, "dynamo_guards") /\ ~is_json_list(CurPayload)
ArtifactFail ==
    Has(CurEnv, "artifact") /\ CurEnv.md["artifact"].encoding \notin { "string", "json" }
B2N(b) == IF b THEN 1 ELSE 0

\* the entries the analyzers that do not fail add to the bucket
SucceededEntries ==
    B2N(Has(CurEnv, "dynamo_output_graph"))
        + B2N(Has(CurEnv, "dynamo_guards") /\ ~GuardsFail)
        + B2N(Has(CurEnv, "link"))
        + B2N(Has(CurEnv, "artifact") /\ ~ArtifactFail)
        + B2N(Has(CurEnv, "compilation_metrics"))

NewOutputs == SubSeq(output', Len(output) + 1, Len(output'))
NewStems == { NewOutputs[k].path.stem : k \in 1..Len(NewOutputs) }

\* C19.  When an analyzer returns an error for an admitted envelope, one
\* counter is incremented by one for it (fail_dynamo_guards_json for
\* dynamo_guards, fail_parser for any other analyzer) and no other counter
\* changes but ok and the digest counter, which the decoder sets before the
\* analyzers run; the failing analyzer adds nothing to the output list or
\* the bucket and takes no sequence number; the other analyzers of the
\* envelope and the post-steps still run; ingestion goes on to the next line.
C19_AnalyzerErrorRouting ==
    [][ (AtEnvelope /\ AdmittedStep) =>
           LET new == NewInBucket(CurEnv.compile_id) IN
           /\ [stats' EXCEPT !.fail_payload_md5 = 0]
                 = [stats EXCEPT
                      !.ok = @ + 1,
                      !.fail_dynamo_guards_json = @ + B2N(GuardsFail),
                      !.fail_parser = @ + B2N(ArtifactFail),
                      !.fail_payload_md5 = 0]
           /\ GuardsFail => << "dynamo_guards" >> \notin NewStems
           /\ ArtifactFail => << CurEnv.md["artifact"].name >> \notin NewStems
           /\ Len(new) = SucceededEntries
           /\ \A i \in 1..Len(new) : new[i].number = output_count + i - 1
           /\ output_count' = output_count + SucceededEntries
           /\ Len(NewOutputs) = SucceededEntries - B2N(Has(CurEnv, "link"))
           /\ Has(CurEnv, "dynamo_output_graph") => << "dynamo_output_graph" >> \in NewStems
           /\ Has(CurEnv, "link") => \E i \in 1..Len(new) : new[i].url = Text("url")
           /\ Has(CurEnv, "compilation_metrics") =>
                 /\ << "compilation_metrics" >> \in NewStems
                 /\ Len(MapGet(metrics_index', zero_attempt(CurEnv.compile_id)))
                       = 1 + (IF MapHas(metrics_index, zero_attempt(CurEnv.compile_id))
                              THEN Len(MapGet(metrics_index,
                                              zero_attempt(CurEnv.compile_id)))
                              ELSE 0)
           /\ Has(CurEnv, "dynamo_start") =>
                 /\ stack_index'[CurEnv.compile_id] = CurEnv.md["dynamo_start"].stack[1]
                 /\ stack_trie' = StackTrieNode_insert(stack_trie,
                                      CurEnv.md["dynamo_start"].stack[1], CurEnv.compile_id)
           /\ pc' = "ingest" /\ pos' > pos
      ]_vars

\* both counters count one error of the first record, whose metrics page was
\* still emitted with sequence number 0, and the second record was ingested
C19_Witness ==
    /\ run = 1 /\ pc = "ingest" /\ pos = 3
    /\ file[1] = EnvLine(CompilationMetrics(
                     Guards(Artifact(WithId(Envelope, C000), "name", "base64")), Metrics))
    /\ file[2] = EnvLine(LinkTo(Guards(Graph(WithId(Envelope, C000)))))
    /\ stats.fail_dynamo_guards_json = 2
    /\ stats.fail_parser = 1
    /\ stats.ok = 2
    /\ Len(output) = 2
    /\ output[1].path.stem = << "compilation_metrics" >> /\ output[1].path.seq = Some(0)
    /\ output[2].path.stem = << "dynamo_output_graph" >> /\ output[2].path.seq = Some(1)
    /\ output_count = 3

(***************************************************************************)
(* The rows of failures_and_restarts.html.                                 *)
(***************************************************************************)
\* metrics records with two restart reasons and a failure, with one restart
\* reason, with no restart_reasons field, of another rank; a record that is
\* not a metrics record
FailureLines ==
    { EnvLine(CompilationMetrics(WithId(Envelope, C000),
                  [Metrics EXCEPT !.restart_reasons = Some(<< "a", "b" >>),
                                  !.fail_type = Some("Unsupported"),
                                  !.fail_reason = Some("reason")])),
      EnvLine(CompilationMetrics(WithId(Envelope, C001),
                  [Metrics EXCEPT !.restart_reasons = Some(<< "c" >>)])),
      EnvLine(CompilationMetrics(WithId(Envelope, C100),
                  [Metrics EXCEPT !.restart_reasons = None])),
      EnvLine(CompilationMetrics(WithRank(WithId(Envelope, C100), Some(1)),
                  [Metrics EXCEPT !.restart_reasons = Some(<< "d" >>)])),
      EnvLine(CompilationMetrics(Envelope,
                  [Metrics EXCEPT !.fail_type = Some("Unsupported"),
                                  !.fail_reason = Some("reason")])),
      EnvLine(Graph(WithId(Envelope, C000))) }

InitFailure == InitWith(FailureLines, { DefaultConfig })
SpecFailure == InitFailure /\ [][Next]_vars

\* the lines the rank gate admits: the record envelopes that carry the rank
\* of the first record envelope
RecordLines == { i \in 1..Len(file) : IsRecordEnvelope(file[i]) }
AdmittedLine(i) ==
    /\ i \in RecordLines
    /\ LET first == CHOOSE j \in RecordLines : \A k \in RecordLines : j <= k
       IN file[i].e[1].rank = file[first].e[1].rank

\* the rows the claim gives a metrics record: its restart reasons in order,
\* then its failure
ClaimedRows(m) ==
    [i \in 1..(IF IsSome(m.restart_reasons) THEN Len(m.restart_reasons[1]) ELSE 0) |->
        Restart(m.restart_reasons[1][i])]
    \o (IF IsSome(m.fail_type)
        THEN << Failure(m.fail_type[1], m.fail_reason[1],
                        IF IsSome(m.fail_user_frame_filename)
                        THEN m.fail_user_frame_filename[1] ELSE "N/A",
                        IF IsSome(m.fail_user_frame_lineno)
                        THEN m.fail_user_frame_lineno[1] ELSE 0) >>
        ELSE << >>)

\* the rows of the file: those of its admitted metrics records, in input order
FileRows ==
    Concat([i \in 1..Len(file) |->
               IF AdmittedLine(i) /\ Has(file[i].e[1], "compilation_metrics")
               THEN ClaimedRows(file[i].e[1].md["compilation_metrics"])
               ELSE << >>])

FailuresPage ==
    LET outs == result.outputs IN
    outs[CHOOSE i \in 1..Len(outs) :
            outs[i].path = Path(TopDir, << "failures_and_restarts" >>, "html")].contents.ctx

\* C20.  The rows of failures_and_restarts.html are, in input order over the
\* admitted compilation_metrics records, one row per entry of the record's
\* restart_reasons followed by one row if the record has a fail_type; no
\* other record adds a row; num_breaks of index.html is the number of rows.
C20_FailureRows ==
    Returned =>
        /\ [i \in 1..Len(FailuresPage) |-> FailuresPage[i].reason] = FileRows
        /\ IndexPage.num_breaks = Len(FileRows)

\* two restart rows and a failure row of the first record, one restart row of
\* the third; the second record, of another rank, adds none
C20_Witness ==
    /\ Returned
    /\ Len(file) = 3
    /\ ~AdmittedLine(2) /\ Has(file[2].e[1], "compilation_metrics")
    /\ [i \in 1..Len(FailuresPage) |-> FailuresPage[i].reason.kind]
          = << "Restart", "Restart", "Failure", "Restart" >>
    /\ IndexPage.num_breaks = 4

(***************************************************************************)
(* The key of the stack index.                                             *)
(***************************************************************************)
\* C21 as stated.  The stack of every admitted dynamo_start record with
\* compile id (f, c, a) is stored in the stack index under (f, c, 0): every
\* key of the stack index has attempt 0, and the step that stores a stack
\* makes it the entry of the zero-attempt key, where the metrics page of any
\* attempt looks it up.
C21_StackIndexZeroAttemptKey ==
    [][ (AtEnvelope /\ AdmittedStep /\ Has(CurEnv, "dynamo_start")
           /\ IsSome(CurEnv.md["dynamo_start"].stack)) =>
           /\ \A k \in DOMAIN stack_index' : k = zero_attempt(k)
           /\ zero_attempt(CurEnv.compile_id) \in DOMAIN stack_index'
           /\ stack_index'[zero_attempt(CurEnv.compile_id)]
                 = maybe_remove_convert_frame_suffixes(
                       INTERN_TABLE, CurEnv.md["dynamo_start"].stack[1])
      ]_vars

(***************************************************************************)
(* An empty continuation line.                                             *)
(***************************************************************************)
\* C22 as stated.  An envelope that declares has_payload and is followed by
\* no tab line, and the same envelope followed by exactly one line that is a
\* single tab, give the analyzers distinguishable payloads: the first gives
\* the empty payload, the second a payload that is not the empty payload.
C22_EmptyContinuationDistinguished ==
    [][ (AtEnvelope /\ IsSome(CurEnv.has_payload) /\ AdmittedStep
           /\ Has(CurEnv, "dynamo_output_graph")) =>
           LET cont == ContinuationLines(file, CurIdx) IN
           /\ cont = {} => LastOutputIsGraphOf(<< >>)
           /\ (Cardinality(cont) = 1 /\ \A j \in cont : file[j] = TabLine(<< >>))
                 => ~LastOutputIsGraphOf(<< >>)
      ]_vars

(***************************************************************************)
(* The link of a failure row.                                              *)
(***************************************************************************)
NewRows == SubSeq(failures', Len(failures) + 1, Len(failures'))

OutcomeLines ==
    { BlankLine, NoGlogLine, NoJsonLine, TabLine(<< "[]" >>),
      EnvLine(Str(Envelope, UserPy, 1)),
      EnvLine(Graph(Envelope)),
      EnvLine(Graph(WithRank(Envelope, Some(1)))),
      EnvLine(Graph(WithPayload(Envelope, Md5(<< "[]" >>)))) }

InitOutcome == InitWith(OutcomeLines, { DefaultConfig })
SpecOutcome == InitOutcome /\ [][Next]_vars

\* the lines consumed as payload: the continuation lines of the envelopes
\* that declare a payload
ConsumedAsPayload ==
    UNION { ContinuationLines(file, i) :
              i \in { j \in RecordLines : IsSome(file[j].e[1].has_payload) } }
\* the non-blank lines that are not consumed as payload
OutcomeLineSet == { i \in 1..Len(file) : ~is_empty(file[i]) /\ i \notin ConsumedAsPayload }
StrLineSet ==
    { i \in 1..Len(file) :
        /\ re_glog_captures(file[i]) /\ IsSome(from_str_Envelope(file[i]))
        /\ IsSome(file[i].e[1].str) }

\* the five outcomes of a step
FailGlogOutcome == stats'.fail_glog = stats.fail_glog + 1
FailJsonOutcome == stats'.fail_json = stats.fail_json + 1
InternOutcome ==
    /\ AtEnvelope /\ IsSome(CurEnv.str)
    /\ INTERN_TABLE' = (CurEnv.str[1].i :> CurEnv.str[1].s) @@ INTERN_TABLE
OtherRankOutcome == stats'.other_rank = stats.other_rank + 1
OkOutcome == stats'.ok = stats.ok + 1
Outcomes ==
    B2N(FailGlogOutcome) + B2N(FailJsonOutcome) + B2N(InternOutcome)
        + B2N(OtherRankOutcome) + B2N(OkOutcome)

\* C24.  Every step on a non-blank line that is not consumed as payload has
\* exactly one outcome: fail_glog counted (no prefix), fail_json counted (no
\* envelope), the intern table insert alone (str record: not dispatched, ok
\* unchanged), other_rank counted, or ok counted and the envelope dispatched
\* (it has its directory bucket).  The line of the step is such a line, and
\* when ingestion ends fail_glog + fail_json + other_rank + ok + the number
\* of str records is the number of such lines.
C24_OneOutcomePerLine ==
    [][ /\ AtRecord =>
              /\ CurIdx \in OutcomeLineSet
              /\ Outcomes = 1
              /\ FailGlogOutcome <=> ~re_glog_captures(CurLine)
              /\ FailJsonOutcome <=>
                     (re_glog_captures(CurLine) /\ ~IsSome(from_str_Envelope(CurLine)))
              /\ InternOutcome => (NotDispatchedStep /\ stats' = stats)
              /\ ~OkOutcome => NotDispatchedStep
              /\ OkOutcome => MapHas(directory', CurEnv.compile_id)
        /\ EndsIngestion =>
              stats.fail_glog + stats.fail_json + stats.other_rank + stats.ok
                  + Cardinality(StrLineSet) = Cardinality(OutcomeLineSet)
      ]_vars

\* three lines, none consumed as payload, with three different outcomes:
\* an admitted record, a str record and a line without the prefix
C24_Witness ==
    /\ pc = "done" /\ run = 1
    /\ Len(file) = 3
    /\ stats.ok = 1 /\ stats.fail_glog = 1
    /\ Cardinality(StrLineSet) = 1
    /\ Cardinality(OutcomeLineSet) = 3

(***************************************************************************)
(* Tab lines and the envelope decoder.                                     *)
(***************************************************************************)
\* C25 as stated.  A line that begins with a tab and comes after an envelope
\* line is never the line of an iteration of the loop, the line that is
\* matched against the prefix regex and counted in fail_glog or fail_json or
\* decoded: also when the envelope line before it failed JSON decoding, was
\* a str record or declared no has_payload.
C25_TabLineNeverDecoded ==
    [][ (AtRecord /\ \E j \in 1..(CurIdx - 1) : re_glog_captures(file[j])) =>
           ~starts_with_tab(CurLine)
      ]_vars

(***************************************************************************)
(* The frame of a record dropped at the rank gate.                         *)
(***************************************************************************)
\* C26 as stated.  An envelope dropped by the rank gate changes nothing but
\* the other_rank counter and the read position: fail_payload_md5, unknown,
\* the set of unknown field names, the directory, the output list, the
\* sequence counter, both stack tries and all indices stay as they are.
C26_RankDroppedFrame ==
    [][ (AtEnvelope /\ stats'.other_rank = stats.other_rank + 1) =>
           /\ stats' = [stats EXCEPT !.other_rank = @ + 1]
           /\ pos' > pos
           /\ UNCHANGED << unknown_fields, directory, output, output_count,
                           metrics_index, stack_index, stack_trie, unknown_stack_trie,
                           failures, chromium_events, INTERN_TABLE, expected_rank >>
      ]_vars

(***************************************************************************)
(* The terminals of a rendered trie.                                       *)
(***************************************************************************)
\* the terminals of a trie, the root's included, node after node
Terminals(trie) == Concat([i \in 1..Len(trie) |-> trie[i].terminal])
\* how often a terminal is in a sequence of terminals
Occurrences(seq, t) == Cardinality({ i \in 1..Len(seq) : seq[i] = t })
\* the terminal a rendered link stands for
LinkTerminal(link) == IF link.known THEN Some(LinkCompileId(link)) ELSE None
RenderedTerminals(html) ==
    LET links == rendered_links(html) IN
    [i \in 1..Len(links) |-> LinkTerminal(links[i])]

\* C27 as stated.  Each terminal of the known stack trie and of the unknown
\* stack trie is in the rendered trie once per insertion, for every inserted
\* stack, the empty stack and a stack that is empty after the convert-frame
\* tail was stripped (terminal at the root) included.
C27_EveryTerminalRendered ==
    Returned =>
        /\ \A t \in Range(Terminals(stack_trie)) :
              Occurrences(RenderedTerminals(IndexPage.stack_trie_html), t)
                  = Occurrences(Terminals(stack_trie), t)
        /\ \A t \in Range(Terminals(unknown_stack_trie)) :
              Occurrences(RenderedTerminals(IndexPage.unknown_stack_trie_html), t)
                  = Occurrences(Terminals(unknown_stack_trie), t)

(***************************************************************************)
(* Trimming and the position of interning records.                         *)
(***************************************************************************)
\* the locals after the loop of a call on the lines f that starts with a
\* fresh intern table
RECURSIVE ingest(_, _)
ingest(S, f) ==
    IF S.error # "" \/ next_line(f, S.pos) > Len(f) THEN S
    ELSE ingest(loop_body(S, f, DefaultConfig), f)
FreshCall == ("table" :> << >>) @@ ("error" :> "") @@ FreshLocals

IsStrLine(l) ==
    re_glog_captures(l) /\ IsSome(from_str_Envelope(l)) /\ IsSome(from_str_Envelope(l)[1].str)
\* the log with its interning records moved before all other lines, the
\* order among the interning records and among the other lines kept
StrFirst(f) ==
    SelectSeq(f, IsStrLine) \o SelectSeq(f, LAMBDA l : ~IsStrLine(l))

\* C28 as stated.  With a fresh intern table, a log and the log that differs
\* from it only in that the str records come before the dynamo_start records
\* yield the same known stack trie.
C28_TrimmingIndependentOfOrder ==
    (run = 1 /\ Returned) =>
        stack_trie = ingest(FreshCall, StrFirst(file)).stack_trie

(***************************************************************************)
(* Two calls of parse_path in one process, on two files, at the same time. *)
(* The intern table is the one static of types.rs, every access under its  *)
(* mutex; all else is local to a call.  A step of either call is one       *)
(* iteration of its loop, the accesses to the table it makes included.     *)
(***************************************************************************)
\* The longest log of the second call, in lines.
MaxPeerLines == 2

\* this call: a stack, the record that interns its file name, its metrics page
ConcurrentLines ==
    { EnvLine(DynamoStart(WithId(Envelope, C000), << UserFrame >>)),
      EnvLine(Str(Envelope, UserPy, 1)),
      EnvLine(CompilationMetrics(WithId(Envelope, C000), Metrics)) }
\* the other call: a record that interns another string under the same id
PeerLines ==
    { EnvLine(Str(Envelope, << "other.py" >>, 1)),
      EnvLine(Graph(Envelope)) }

InitConcurrent ==
    /\ \E f \in SeqsUpTo(PeerLines, MaxPeerLines) :
          peer = [pc |-> "ingest", file |-> f, locals |-> FreshLocals]
    /\ \/ is_file = TRUE /\ file \in SeqsUpTo(ConcurrentLines, MaxLines)
       \/ is_file = FALSE /\ file = << >>
    /\ config = DefaultConfig
    /\ INTERN_TABLE = << >>
    /\ run = 1
    /\ first_result = NoResult
    /\ pc = "start"
    /\ result = NoResult
    /\ LocalsAre(FreshLocals)

\* one iteration of the loop of the other call, on the shared table
PeerLine ==
    /\ peer.pc = "ingest"
    /\ next_line(peer.file, peer.locals.pos) <= Len(peer.file)
    /\ LET S == ("table" :> INTERN_TABLE) @@ ("error" :> "") @@ peer.locals
           N == loop_body(S, peer.file, DefaultConfig)
       IN /\ INTERN_TABLE' = N.table
          /\ peer' = [peer EXCEPT
                        !.locals = [k \in DOMAIN FreshLocals |-> N[k]],
                        !.pc = IF N.error = "" THEN "ingest" ELSE "done"]
    /\ UNCHANGED << is_file, file, config, run, first_result, pc, result,
                    pos, stats, expected_rank, directory, output, output_count,
                    metrics_index, stack_index, stack_trie, unknown_stack_trie,
                    failures, chromium_events, unknown_fields >>

\* the reader of the other call is exhausted: it renders and returns
PeerFinish ==
    /\ peer.pc = "ingest"
    /\ next_line(peer.file, peer.locals.pos) > Len(peer.file)
    /\ peer' = [peer EXCEPT !.pc = "done"]
    /\ UNCHANGED << is_file, file, config, INTERN_TABLE, run, first_result, pc,
                    result, pos, stats, expected_rank, directory, output,
                    output_count, metrics_index, stack_index, stack_trie,
                    unknown_stack_trie, failures, chromium_events, unknown_fields >>

NextConcurrent == Bail \/ Open \/ ProcessLine \/ Finish \/ PeerLine \/ PeerFinish
SpecConcurrent == InitConcurrent /\ [][NextConcurrent]_vars

\* what the call on this file builds when it runs alone in a fresh process
Alone == ingest(FreshCall, file)

\* C29 as stated.  Under every interleaving with the other call, this call
\* returns what it returns when it runs alone in a fresh process: the files
\* of its records and the known stack trie of its index.html are the same.
C29_ConcurrentIsolation ==
    Returned =>
        /\ SubSeq(result.outputs, 1, Len(result.outputs) - Len(terminal_outputs))
              = Alone.output
        /\ IndexPage.stack_trie_html
              = StackTrieNode_fmt(Alone.table, Alone.stack_trie, Some(Alone.metrics_index))

(***************************************************************************)
(* Link and GlobalFile outputs.                                            *)
(***************************************************************************)
\* the path a dump_file record's page is emitted under
DumpFilePath(md) ==
    Path(DumpFileDir,
         IF IsSome(md.eval_with_key_id) THEN << "eval_with_key_", md.eval_with_key_id[1] >>
         ELSE << md.name >>,
         "html")

\* C30.  A Link output adds exactly one entry to the bucket of the
\* envelope's compile id: the link's url and name, an empty badge, the next
\* sequence number; it adds nothing to the output list.  A GlobalFile output
\* is emitted under its path unchanged, without sequence number, and is
\* listed in the bucket of the envelope's compile id, the None bucket if it
\* has none.
C30_LinkAndGlobalFile ==
    [][ (AtEnvelope /\ AdmittedStep /\ pc' = "ingest") =>
           LET new == NewInBucket(CurEnv.compile_id)
               links == { i \in 1..Len(new) : new[i].url.dir.kind = "text" }
           IN
           /\ IF Has(CurEnv, "link")
              THEN /\ Cardinality(links) = 1
                   /\ \A i \in links :
                         new[i] = OutputFile(Text(CurEnv.md["link"].url),
                                             Text(CurEnv.md["link"].name),
                                             output_count + i - 1, "")
                   /\ Len(NewOutputs) = Len(new) - 1
              ELSE /\ links = {}
                   /\ Len(NewOutputs) = Len(new)
           /\ \A k \in 1..Len(NewOutputs) : NewOutputs[k].path.dir.kind # "text"
           /\ Has(CurEnv, "dump_file") =>
                 LET path == DumpFilePath(CurEnv.md["dump_file"]) IN
                 /\ path.seq = None
                 /\ \E k \in 1..Len(NewOutputs) : NewOutputs[k].path = path
                 /\ \E i \in 1..Len(new) :
                       /\ new[i].url = path /\ new[i].name = path
                       /\ new[i].number = output_count + i - 1
      ]_vars

\* a dumped file listed in the None bucket, then a record of compile id
\* (0, 0, 0) whose link took the number 2 between its graph and its dumped
\* file: three files were emitted for four entries
C30_Witness ==
    /\ pc = "ingest" /\ run = 1
    /\ Len(output) = 3 /\ output_count = 4
    /\ MapHas(directory, None)
    /\ MapGet(directory, None)[1].url.dir = DumpFileDir
    /\ MapHas(directory, C000)
    /\ Len(MapGet(directory, C000)) = 3
    /\ MapGet(directory, C000)[2] = OutputFile(Text("url"), Text("name"), 2, "")
    /\ MapGet(directory, C000)[3].url.dir = DumpFileDir

====
